---- MODULE Spec2Model ----
(***************************************************************************)
(* Model of the mindmap generation pipeline of mindmap_generator.py:       *)
(* four model-backed stages run in sequence by                             *)
(* MindmapGenerator.generate_mindmap, the retry loops of stages 1 and 2,   *)
(* the validators and the fallback generators.                             *)
(*                                                                         *)
(* Texts are sequences whose elements are single characters or opaque      *)
(* chunks of literal template text (a chunk never contains a markup        *)
(* character).  JSON objects are functions from key strings to values, so  *)
(* Python's `key in data` is `key \in DOMAIN data`.  A JSON value that the *)
(* code tests with isinstance(..., list) is wrapped: JList(items) or       *)
(* JOther.  Elements of concepts / nodes / relationships are objects.      *)
(***************************************************************************)
EXTENDS Integers, Sequences, FiniteSets, TLC

\* ------------------------------------------------------------------ bounds

\* most nodes in a layout the model service returns at stage 2
MaxNodes == 2
\* highest level value the model service puts on a node
MaxLevel == 2
\* most elements of the concepts list in an object handed to a validator
MaxItems == 2
\* phrases in a prompt the fallback is applied to on its own
MaxWords == 2
\* pieces in a text the sanitizer is applied to
MaxPieces == 3

\* --------------------------------------------------------------- characters

lowerLetters == <<"a","b","c","d","e","f","g","h","i","j","k","l","m","n","o","p","q","r","s","t","u","v","w","x","y","z">>
upperLetters == <<"A","B","C","D","E","F","G","H","I","J","K","L","M","N","O","P","Q","R","S","T","U","V","W","X","Y","Z">>

Range(s) == {s[i] : i \in DOMAIN s}

IsLower(c) == c \in Range(lowerLetters)
IsUpper(c) == c \in Range(upperLetters)
IsCased(c) == IsLower(c) \/ IsUpper(c)

IndexOf(s, c) == CHOOSE i \in DOMAIN s : s[i] = c

\* str.lower() on one character
LowerChar(c) == IF IsUpper(c) THEN lowerLetters[IndexOf(upperLetters, c)] ELSE c
\* str.upper() on one character
UpperChar(c) == IF IsLower(c) THEN upperLetters[IndexOf(lowerLetters, c)] ELSE c

\* str.lower()
Lower(s) == [i \in DOMAIN s |-> LowerChar(s[i])]

\* str.title(): a cased character is upper-cased when it follows an uncased
\* character (or starts the text) and lower-cased otherwise
Title(s) ==
  [i \in DOMAIN s |->
     IF i > 1 /\ IsCased(s[i-1]) THEN LowerChar(s[i]) ELSE UpperChar(s[i])]

\* `w in s` for texts: w occurs in s as a contiguous run
Contains(s, w) ==
  \E i \in 1..(Len(s) - Len(w) + 1) : SubSeq(s, i, i + Len(w) - 1) = w

IsSpace(c) == c = " "

\* str.strip()
RECURSIVE LStrip(_)
LStrip(s) == IF s # <<>> /\ IsSpace(Head(s)) THEN LStrip(Tail(s)) ELSE s
RECURSIVE RStrip(_)
RStrip(s) ==
  IF s # <<>> /\ IsSpace(s[Len(s)]) THEN RStrip(SubSeq(s, 1, Len(s) - 1)) ELSE s
Strip(s) == RStrip(LStrip(s))

\* str.split(): the maximal runs of non-whitespace characters, in order
RECURSIVE SplitFrom(_, _, _)
SplitFrom(s, cur, acc) ==
  IF s = <<>> THEN (IF cur = <<>> THEN acc ELSE Append(acc, cur))
  ELSE IF IsSpace(Head(s))
       THEN SplitFrom(Tail(s), <<>>, IF cur = <<>> THEN acc ELSE Append(acc, cur))
       ELSE SplitFrom(Tail(s), Append(cur, Head(s)), acc)
Split(s) == SplitFrom(s, <<>>, <<>>)

\* ' '.join(words)
RECURSIVE Join(_)
Join(ws) ==
  IF ws = <<>> THEN <<>>
  ELSE IF Len(ws) = 1 THEN ws[1]
  ELSE ws[1] \o <<" ">> \o Join(Tail(ws))

\* s[0:n] on a list
Take(s, n) == SubSeq(s, 1, IF Len(s) < n THEN Len(s) ELSE n)

\* dict.get(key, default)
Get(d, key, default) == IF key \in DOMAIN d THEN d[key] ELSE default

\* a JSON array, and a JSON value that is not an array
JList(items) == [type |-> "list", items |-> items]
JOther == [type |-> "other", items |-> <<>>]
isinstance_list(v) == v.type = "list"
\* JSON null as a list element: the one value here that is not an object; an
\* object never has the key "$null"
JNull == [k \in {"$null"} |-> "null"]
IsObject(v) == "$null" \notin DOMAIN v

\* max(xs, default=0) over a list of numbers
RECURSIVE MaxOf(_)
MaxOf(xs) ==
  IF xs = <<>> THEN 0
  ELSE IF Len(xs) = 1 THEN xs[1]
  ELSE LET m == MaxOf(Tail(xs)) IN IF xs[1] >= m THEN xs[1] ELSE m

\* ------------------------------------------------- stage 1 fallback: domain

ml_keywords ==
  {<<"m","a","c","h","i","n","e"," ","l","e","a","r","n","i","n","g">>,
   <<"m","l">>, <<"a","i">>, <<"m","o","d","e","l">>,
   <<"a","l","g","o","r","i","t","h","m">>, <<"d","a","t","a">>}
arch_keywords ==
  {<<"a","r","c","h","i","t","e","c","t","u","r","e">>,
   <<"s","y","s","t","e","m">>, <<"s","o","f","t","w","a","r","e">>,
   <<"a","p","i">>, <<"d","a","t","a","b","a","s","e">>}
business_keywords ==
  {<<"b","u","s","i","n","e","s","s">>, <<"s","t","r","a","t","e","g","y">>,
   <<"m","a","r","k","e","t","i","n","g">>, <<"s","a","l","e","s">>,
   <<"r","e","v","e","n","u","e">>}
education_keywords ==
  {<<"l","e","a","r","n">>, <<"e","d","u","c","a","t","i","o","n">>,
   <<"c","o","u","r","s","e">>, <<"s","t","u","d","y">>,
   <<"t","r","a","i","n","i","n","g">>}

\* any(word in prompt_lower for word in keywords)
AnyIn(keywords, prompt_lower) == \E w \in keywords : Contains(prompt_lower, w)

ClassifyDomain_architectureFirst(prompt) ==
  LET prompt_lower == Lower(prompt) IN
  IF AnyIn(arch_keywords, prompt_lower) THEN "software_architecture"
  ELSE IF AnyIn(ml_keywords, prompt_lower) THEN "machine_learning"
  ELSE IF AnyIn(business_keywords, prompt_lower) THEN "business_strategy"
  ELSE IF AnyIn(education_keywords, prompt_lower) THEN "education"
  ELSE "general"

\* the domain the fallback classifier assigns to a prompt
ClassifyDomain(prompt) ==
  LET prompt_lower == Lower(prompt) IN
  IF AnyIn(ml_keywords, prompt_lower) THEN "machine_learning"
  ELSE IF AnyIn(arch_keywords, prompt_lower) THEN "software_architecture"
  ELSE IF AnyIn(business_keywords, prompt_lower) THEN "business_strategy"
  ELSE IF AnyIn(education_keywords, prompt_lower) THEN "education"
  ELSE "general"

stop_words ==
  {<<"a">>, <<"a","n">>, <<"t","h","e">>, <<"a","n","d">>, <<"o","r">>,
   <<"b","u","t">>, <<"i","n">>, <<"o","n">>, <<"a","t">>, <<"t","o">>,
   <<"f","o","r">>, <<"o","f">>, <<"w","i","t","h">>, <<"b","y">>,
   <<"f","r","o","m">>, <<"a","b","o","u","t">>, <<"h","o","w">>,
   <<"w","h","a","t">>, <<"w","h","e","n">>, <<"w","h","e","r","e">>,
   <<"w","h","y">>, <<"c","r","e","a","t","e">>, <<"m","a","k","e">>,
   <<"g","e","n","e","r","a","t","e">>, <<"m","i","n","d","m","a","p">>,
   <<"m","a","p">>, <<"s","y","s","t","e","m">>, <<"d","e","s","i","g","n">>}

IsKeyWord(w) == Lower(w) \notin stop_words /\ Len(w) > 3

\* [w for w in words if w.lower() not in stop_words and len(w) > 3]
RECURSIVE FilterKeyWords(_)
FilterKeyWords(words) ==
  IF words = <<>> THEN <<>>
  ELSE (IF IsKeyWord(Head(words)) THEN <<Head(words)>> ELSE <<>>)
       \o FilterKeyWords(Tail(words))

\* key_words: the first 8 of them
KeyWords(prompt) == Take(FilterKeyWords(Split(prompt)), 8)

\* ' '.join(prompt.split()[0:4]).title()
MainTopic(prompt) == Title(Join(Take(Split(prompt), 4)))

\* domain.replace('_', ' ')
DomainWords(domain) ==
  CASE domain = "machine_learning" -> "machine learning"
    [] domain = "software_architecture" -> "software architecture"
    [] domain = "business_strategy" -> "business strategy"
    [] OTHER -> domain

\* ------------------------------------------ stage 1 fallback: ConceptGraph

_get_domain_tools(domain) ==
  CASE domain = "machine_learning" -> <<"Python", "TensorFlow", "scikit-learn", "MLflow">>
    [] domain = "software_architecture" -> <<"Docker", "Kubernetes", "AWS/Azure", "MongoDB">>
    [] domain = "business_strategy" -> <<"Excel", "Tableau", "Salesforce", "HubSpot">>
    [] domain = "education" -> <<"LMS Platform", "Assessment Tools", "Video Conferencing", "Analytics">>
    [] OTHER -> <<"Generic Tool 1", "Platform 2", "Framework 3">>

_get_domain_stakeholders(domain) ==
  CASE domain = "machine_learning" -> <<"Data Scientists", "ML Engineers", "Product Managers">>
    [] domain = "software_architecture" -> <<"Software Architects", "DevOps Engineers", "QA Team">>
    [] domain = "business_strategy" -> <<"Business Analysts", "Executive Team", "Marketing">>
    [] domain = "education" -> <<"Instructors", "Students", "Academic Administration">>
    [] OTHER -> <<"Project Manager", "Technical Team", "Stakeholders">>

\* the ordered process-stage names of the fallback (each name is a text)
ProcessFlow(domain, key_words) ==
  CASE domain = "machine_learning" ->
         << <<"D","a","t","a"," ","C","o","l","l","e","c","t","i","o","n">>,
            <<"F","e","a","t","u","r","e"," ","E","n","g","i","n","e","e","r","i","n","g">>,
            <<"M","o","d","e","l"," ","T","r","a","i","n","i","n","g">>,
            <<"V","a","l","i","d","a","t","i","o","n">>,
            <<"D","e","p","l","o","y","m","e","n","t">>,
            <<"M","o","n","i","t","o","r","i","n","g">> >>
    [] domain = "software_architecture" ->
         << <<"R","e","q","u","i","r","e","m","e","n","t","s"," ","A","n","a","l","y","s","i","s">>,
            <<"S","y","s","t","e","m"," ","D","e","s","i","g","n">>,
            <<"I","m","p","l","e","m","e","n","t","a","t","i","o","n">>,
            <<"T","e","s","t","i","n","g">>,
            <<"D","e","p","l","o","y","m","e","n","t">>,
            <<"M","a","i","n","t","e","n","a","n","c","e">> >>
    [] domain = "business_strategy" ->
         << <<"M","a","r","k","e","t"," ","A","n","a","l","y","s","i","s">>,
            <<"S","t","r","a","t","e","g","y"," ","P","l","a","n","n","i","n","g">>,
            <<"R","e","s","o","u","r","c","e"," ","A","l","l","o","c","a","t","i","o","n">>,
            <<"E","x","e","c","u","t","i","o","n">>,
            <<"P","e","r","f","o","r","m","a","n","c","e"," ","T","r","a","c","k","i","n","g">> >>
    [] OTHER ->
         IF Len(key_words) >= 6 THEN Take(key_words, 6)
         ELSE << <<"P","l","a","n","n","i","n","g">>,
                 <<"D","e","s","i","g","n">>,
                 <<"I","m","p","l","e","m","e","n","t","a","t","i","o","n">>,
                 <<"T","e","s","t","i","n","g">>,
                 <<"D","e","p","l","o","y","m","e","n","t">> >>

\* f"process_{i+1}" for the i-th stage name, counted from 1 here
processIds == <<"process_1", "process_2", "process_3", "process_4", "process_5", "process_6">>

\* a root concept with the identifying fields only
RootConcept_bare(main_topic, domain) ==
  [id |-> "root", title |-> main_topic, level |-> 0, parent |-> "None"]

\* the root concept of the fallback
RootConcept(main_topic, domain) ==
  [id |-> "root",
   title |-> main_topic,
   description |-> <<"Comprehensive ", DomainWords(domain), " system addressing ">> \o Lower(main_topic),
   level |-> 0,
   parent |-> "None",
   category |-> "system",
   node_type |-> "start",
   what |-> <<"Complete ">> \o Lower(main_topic) \o <<" implementation">>,
   why |-> <<"Addresses critical business need in ", DomainWords(domain)>>,
   how |-> <<"Systematic approach with proven methodologies">>,
   examples |-> << <<"Industry example 1 for ">> \o main_topic, <<"Use case in ", domain>> >>,
   metrics |-> << <<"Success rate: >90%">>, <<"Implementation time: 3-6 months">>, <<"ROI: 2-5x">> >>,
   details |-> << <<"Core architecture for ">> \o Lower(main_topic),
                  <<"Scalable and maintainable design">>,
                  <<"Integration with existing systems">> >>,
   processes |-> << <<"Phase 1: Requirements and planning">>,
                    <<"Phase 2: Design and development">>,
                    <<"Phase 3: Testing and deployment">>,
                    <<"Phase 4: Monitoring and optimization">> >>,
   considerations |-> << <<"Risk mitigation and contingency planning">>,
                         <<"Resource allocation and timeline management">> >>,
   tools_technologies |-> _get_domain_tools(domain),
   stakeholders |-> _get_domain_stakeholders(domain)]

\* the concept of the i-th stage name (i counts from 1)
ProcessConcept(process_flow, i, main_topic, domain) ==
  LET process == process_flow[i] IN
  [id |-> processIds[i],
   title |-> process,
   description |-> <<"Comprehensive ">> \o Lower(process) \o <<" stage with detailed implementation">>,
   level |-> 1,
   parent |-> "root",
   category |-> "process",
   node_type |-> IF i < Len(process_flow) THEN "process" ELSE "outcome",
   what |-> <<"Execute ">> \o Lower(process) \o <<" with best practices">>,
   why |-> <<"Critical step for successful ">> \o Lower(main_topic),
   how |-> <<"Systematic approach to ">> \o Lower(process),
   examples |-> << <<"Example method for ">> \o process, <<"Tool/technique for ">> \o process >>,
   metrics |-> << process \o <<" completion: 100%">>, <<"Quality score: >85%">>,
                  <<"Timeline adherence: >90%">> >>,
   details |-> << <<"Key deliverables for ">> \o Lower(process),
                  <<"Quality criteria and acceptance tests">>,
                  <<"Dependencies and prerequisites">> >>,
   processes |-> << <<"Step 1: ">> \o process \o <<" planning and preparation">>,
                    <<"Step 2: ">> \o process \o <<" execution">>,
                    <<"Step 3: ">> \o process \o <<" validation and review">> >>,
   considerations |-> << <<"Common challenges in ">> \o Lower(process),
                         <<"Best practices for ">> \o Lower(process) >>,
   tools_technologies |-> _get_domain_tools(domain),
   stakeholders |-> _get_domain_stakeholders(domain)]

\* every relationship starting at the root: a star instead of a chain
ProcessRelationship_fromRoot(process_flow, i) ==
  [from |-> "root",
   to |-> processIds[i],
   type |-> "initiates",
   description |-> <<"Sequential flow from ">> \o <<"start">> \o <<" to ">> \o process_flow[i]]

\* the relationship that leads to the i-th stage name (i counts from 1)
ProcessRelationship(process_flow, i) ==
  [from |-> IF i = 1 THEN "root" ELSE processIds[i - 1],
   to |-> processIds[i],
   type |-> IF i = 1 THEN "initiates" ELSE "leads_to",
   description |-> <<"Sequential flow from ">>
                   \o (IF i = 1 THEN <<"start">> ELSE process_flow[i - 1])
                   \o <<" to ">> \o process_flow[i]]

\* the ConceptGraph synthesized from the prompt alone
_create_intelligent_fallback(prompt) ==
  LET domain == ClassifyDomain(prompt)
      workflow_type == "sequential"
      key_words == KeyWords(prompt)
      main_topic == MainTopic(prompt)
      process_flow == ProcessFlow(domain, key_words)
  IN [main_topic |-> main_topic,
      topic_description |-> <<"Comprehensive ", DomainWords(domain),
                              " implementation covering all critical aspects">>,
      mindmap_type |-> "flowchart",
      domain |-> domain,
      complexity_level |-> "intermediate",
      workflow_type |-> workflow_type,
      concepts |-> JList(<<RootConcept(main_topic, domain)>>
                         \o [i \in 1..Len(process_flow) |->
                               ProcessConcept(process_flow, i, main_topic, domain)]),
      relationships |-> JList([i \in 1..Len(process_flow) |->
                                 ProcessRelationship(process_flow, i)])]

\* ------------------------------------------- the sanitizer of model output

\* one backtick character, and the code-fence markers made of it
Backtick == "BQ"
FenceMarker == <<Backtick, Backtick, Backtick>>
JsonFenceMarker == FenceMarker \o <<"j", "s", "o", "n">>

\* the indices (from 0) at which w occurs in s
Occurrences(s, w) ==
  {i \in 0..(Len(s) - Len(w)) : SubSeq(s, i + 1, i + Len(w)) = w}
\* str.find(w, from): the first occurrence at or after from, else -1
Find(s, w, from) ==
  LET at == {i \in Occurrences(s, w) : i >= from}
  IN IF at = {} THEN -1 ELSE CHOOSE i \in at : \A j \in at : i <= j
\* str.rfind(w): the last occurrence, else -1
RFind(s, w) ==
  LET at == Occurrences(s, w)
  IN IF at = {} THEN -1 ELSE CHOOSE i \in at : \A j \in at : j <= i
\* s[start:end] with start >= 0; a negative end counts from the end of s
Slice(s, start, end) ==
  LET stop == IF end < 0 THEN (IF Len(s) + end < 0 THEN 0 ELSE Len(s) + end)
              ELSE IF end > Len(s) THEN Len(s) ELSE end
  IN IF stop <= start THEN <<>> ELSE SubSeq(s, start + 1, stop)

\* content.replace('\n', ' ').replace('\t', ' ')
ReplaceBreaks(s) == [i \in DOMAIN s |-> IF s[i] \in {"\n", "\t"} THEN " " ELSE s[i]]

\* whether s starts with \s*[}\]], what the pattern asks for after the comma
ClosesAfterSpace(s) == LET r == LStrip(s) IN r # <<>> /\ Head(r) \in {"}", "]"}

\* re.sub(r',(\s*[}\]])', r'\1', content): the matches are found left to
\* right; each starts at a comma and holds no other comma
RECURSIVE SubTrailingCommas(_)
SubTrailingCommas(s) ==
  IF s = <<>> THEN <<>>
  ELSE IF Head(s) = "," /\ ClosesAfterSpace(Tail(s)) THEN SubTrailingCommas(Tail(s))
  ELSE <<Head(s)>> \o SubTrailingCommas(Tail(s))

\* the code-fence step
Unfence(content) ==
  IF Occurrences(content, JsonFenceMarker) # {}
  THEN LET start == Find(content, JsonFenceMarker, 0) + 7
           end == Find(content, FenceMarker, start)
       IN Slice(content, start, end)
  ELSE IF Occurrences(content, FenceMarker) # {}
  THEN LET start == Find(content, FenceMarker, 0) + 3
           end == RFind(content, FenceMarker)
       IN Slice(content, start, end)
  ELSE content

\* the object-boundary step
CutToObject(content) ==
  LET start_idx == Find(content, <<"{">>, 0)
      end_idx == RFind(content, <<"}">>) + 1
  IN IF start_idx # -1 /\ end_idx > start_idx
     THEN Slice(content, start_idx, end_idx) ELSE content

_clean_json_response(content) ==
  Strip(SubTrailingCommas(ReplaceBreaks(CutToObject(Unfence(content)))))

\* ---------------------------------------------------------------- validators

required_keys_1_noRelationships ==
  {"main_topic", "topic_description", "mindmap_type", "concepts"}
required_keys_1 == {"main_topic", "topic_description", "mindmap_type", "concepts", "relationships"}
required_concept_keys ==
  {"id", "title", "description", "level", "what", "why", "how", "examples", "metrics"}

\* the stage-1 validator
_validate_detailed_parsed_data(data) ==
  IF ~(required_keys_1 \subseteq DOMAIN data) THEN FALSE
  ELSE IF ~isinstance_list(data["concepts"]) \/ Len(data["concepts"].items) = 0 THEN FALSE
  ELSE IF ~(required_concept_keys \subseteq DOMAIN (data["concepts"].items[1])) THEN FALSE
  ELSE TRUE

\* the membership test on the first concept raises TypeError when it is null
ParsedDataCheckRaises(data) ==
  /\ required_keys_1 \subseteq DOMAIN data
  /\ isinstance_list(data["concepts"]) /\ Len(data["concepts"].items) > 0
  /\ ~IsObject(data["concepts"].items[1])

required_keys_2 == {"title", "description", "layout_type", "nodes", "edges"}
required_node_keys_noConsiderations ==
  {"id", "title", "description", "x", "y", "details", "processes"}
required_node_keys ==
  {"id", "title", "description", "x", "y", "details", "processes", "considerations"}

\* the stage-2 validator
_validate_detailed_structured_data(data) ==
  IF ~(required_keys_2 \subseteq DOMAIN data) THEN FALSE
  ELSE IF ~isinstance_list(data["nodes"]) \/ Len(data["nodes"].items) = 0 THEN FALSE
  ELSE IF ~(required_node_keys \subseteq DOMAIN (data["nodes"].items[1])) THEN FALSE
  ELSE TRUE

\* the membership test on the first node raises TypeError when it is null
StructuredDataCheckRaises(data) ==
  /\ required_keys_2 \subseteq DOMAIN data
  /\ isinstance_list(data["nodes"]) /\ Len(data["nodes"].items) > 0
  /\ ~IsObject(data["nodes"].items[1])

\* ------------------------------------------- stage 2 fallback: LayoutGraph

color_map(node_type) ==
  CASE node_type = "start" -> "#2c3e50"
    [] node_type = "process" -> "#3498db"
    [] node_type = "decision" -> "#e74c3c"
    [] node_type = "outcome" -> "#27ae60"
    [] node_type = "checkpoint" -> "#f39c12"
    [] node_type = "end" -> "#9b59b6"
    [] OTHER -> "#3498db"

start_x == 600
start_y == 150
spacing_y == 200

\* the layout runs the vertical flowchart branch for these workflow types only
IsFlowLayout(workflow_type) == workflow_type = "flowchart" \/ workflow_type = "sequential"

\* the node built from the i-th concept (i counts from 1; the code's index is i-1)
FallbackNode(concept, i) ==
  LET node_type == Get(concept, "node_type", "process")
      level == Get(concept, "level", 0)
  IN [id |-> concept["id"],
      title |-> Take(concept["title"], 30),
      description |-> Get(concept, "description", <<"Process component">>),
      level |-> level,
      x |-> IF level = 0 THEN start_x ELSE start_x + (level - 1) * 50,
      y |-> IF level = 0 THEN start_y ELSE start_y + ((i - 1) * spacing_y),
      width |-> IF level = 0 THEN 300 ELSE 250,
      height |-> IF level = 0 THEN 100 ELSE 80,
      color |-> color_map(node_type),
      shape |-> IF node_type = "decision" THEN "diamond" ELSE "rectangle",
      category |-> Get(concept, "category", "process"),
      node_type |-> node_type,
      what |-> Get(concept, "what", <<"Process step">>),
      why |-> Get(concept, "why", <<"Critical for success">>),
      how |-> Get(concept, "how", <<"Systematic implementation">>),
      examples |-> Get(concept, "examples", << <<"Example 1">>, <<"Example 2">> >>),
      metrics |-> Get(concept, "metrics", << <<"Metric 1">>, <<"Metric 2">> >>),
      details |-> Get(concept, "details", << <<"Detail 1">>, <<"Detail 2">> >>),
      processes |-> Get(concept, "processes", << <<"Step 1">>, <<"Step 2">> >>),
      considerations |-> Get(concept, "considerations", << <<"Consideration 1">> >>),
      tools_technologies |-> Get(concept, "tools_technologies", <<"Tool 1">>),
      stakeholders |-> Get(concept, "stakeholders", <<"Role 1">>),
      expanded |-> (level = 0)]

\* f"edge_{i+1}" for the i-th relationship, counted from 1 here
edgeIds == <<"edge_1", "edge_2", "edge_3", "edge_4", "edge_5", "edge_6">>

\* the edge built from the i-th relationship
FallbackEdge(rel, i) ==
  [id |-> edgeIds[i],
   from |-> rel["from"],
   to |-> rel["to"],
   label |-> Get(rel, "type", "connects"),
   description |-> Get(rel, "description", <<"Process flow">>),
   color |-> "#34495e",
   weight |-> 3,
   style |-> "solid"]

\* [node.get("level", 0) for node in nodes]
Levels(nodes) == [i \in DOMAIN nodes |-> Get(nodes[i], "level", 0)]

\* whether the stage-2 fallback raises on this ConceptGraph: concept["id"],
\* concept["title"], rel["from"] and rel["to"] are subscripts (KeyError when the
\* key is absent), and a relationships value that is no list cannot be iterated
FallbackStructureRaises(parsed_data) ==
  LET concepts == Get(parsed_data, "concepts", JList(<<>>)).items
      workflow_type == Get(parsed_data, "workflow_type", "sequential")
      relationships == Get(parsed_data, "relationships", JList(<<>>))
  IN \/ /\ IsFlowLayout(workflow_type)
        /\ \E i \in DOMAIN concepts : ~({"id", "title"} \subseteq DOMAIN concepts[i])
     \/ ~isinstance_list(relationships)
     \/ \E i \in DOMAIN relationships.items :
           ~({"from", "to"} \subseteq DOMAIN relationships.items[i])

\* the LayoutGraph the stage-2 fallback returns when it does not raise
_create_detailed_fallback_structure(parsed_data) ==
  LET title == Get(parsed_data, "main_topic", <<"Mindmap">>)
      description == Get(parsed_data, "topic_description", <<"Comprehensive system analysis">>)
      concepts == Get(parsed_data, "concepts", JList(<<>>)).items
      domain == Get(parsed_data, "domain", "general")
      workflow_type == Get(parsed_data, "workflow_type", "sequential")
      nodes == IF IsFlowLayout(workflow_type)
               THEN [i \in DOMAIN concepts |-> FallbackNode(concepts[i], i)]
               ELSE <<>>
      relationships == Get(parsed_data, "relationships", JList(<<>>)).items
      edges == [i \in DOMAIN relationships |-> FallbackEdge(relationships[i], i)]
  IN [title |-> title,
      description |-> description,
      layout_type |-> "flowchart",
      domain |-> domain,
      complexity |-> Get(parsed_data, "complexity_level", "intermediate"),
      workflow_type |-> workflow_type,
      metadata |-> [total_nodes |-> Len(nodes),
                    max_depth |-> MaxOf(Levels(nodes)),
                    creation_context |-> "Enhanced intelligent structure"],
      nodes |-> JList(nodes),
      edges |-> JList(edges)]

\* the post-validation normalization of a layout the model returned
UpdateMetadata_asReceived(structured_data) == structured_data

UpdateMetadata(structured_data) ==
  LET nodes == Get(structured_data, "nodes", JList(<<>>)).items
      md == structured_data["metadata"]
  IN [structured_data EXCEPT
        !["metadata"] = [k \in DOMAIN md \cup {"total_nodes", "max_depth"} |->
                           IF k = "total_nodes" THEN Len(nodes)
                           ELSE IF k = "max_depth" THEN MaxOf(Levels(nodes))
                           ELSE md[k]]]

\* -------------------------------------------------- markup (XML) documents
\* A document is a text whose elements are tag tokens, single characters and
\* chunks of character data.  The template's indentation and line breaks are
\* ignorable white space and are left out.

XmlDecl == "<?xml version=\"1.0\" encoding=\"UTF-8\"?>"
MindmapOpen == "<mindmap version=\"2.0\" editable=\"true\">"
RootNodeOpen == "<node id=\"root\" level=\"0\" category=\"core\" expanded=\"true\">"

\* <<start tag, end tag>> of the elements of the schema
TagPairs ==
  {<<MindmapOpen, "</mindmap>">>, <<"<metadata>", "</metadata>">>,
   <<"<title>", "</title>">>, <<"<description>", "</description>">>,
   <<"<created_at>", "</created_at>">>, <<"<layout_type>", "</layout_type>">>,
   <<"<domain>", "</domain>">>, <<"<complexity>", "</complexity>">>,
   <<"<total_nodes>", "</total_nodes>">>, <<"<max_depth>", "</max_depth>">>,
   <<"<generation_context>", "</generation_context>">>,
   <<"<nodes>", "</nodes>">>, <<RootNodeOpen, "</node>">>,
   <<"<content>", "</content>">>, <<"<details>", "</details>">>,
   <<"<item>", "</item>">>, <<"<processes>", "</processes>">>,
   <<"<step>", "</step>">>, <<"<considerations>", "</considerations>">>,
   <<"<point>", "</point>">>, <<"<edges>", "</edges>">>}

\* empty-element tags
EmptyTags ==
  {"<position x=\"400\" y=\"300\" width=\"200\" height=\"80\"/>",
   "<style color=\"#2c3e50\" shape=\"rectangle\" border=\"solid\"/>",
   "<mindmap/>"}

IsStartTag(t) == \E p \in TagPairs : p[1] = t
IsEndTag(t) == \E p \in TagPairs : p[2] = t
EndTagOf(t) == (CHOOSE p \in TagPairs : p[1] = t)[2]

\* a character that cannot stand unescaped in character data
IsMarkupChar(t) == t = "<" \/ t = "&"

\* a fallback that copied the layout's domain into the metadata block
FallbackXmlDomain_fromLayout(structured_data) == Get(structured_data, "domain", "general")

\* the domain the stage-3 fallback writes into the metadata block: a literal
FallbackXmlDomain(structured_data) == "general"

\* the document the stage-3 fallback writes: title, description and prompt are
\* interpolated as they are
_create_detailed_fallback_xml(structured_data, original_prompt) ==
  LET title == Get(structured_data, "title", <<"Mindmap">>)
      description == Get(structured_data, "description", <<"Comprehensive mindmap">>)
      timestamp == "TIMESTAMP"
  IN <<XmlDecl, MindmapOpen, "<metadata>", "<title>">> \o title \o <<"</title>",
       "<description>">> \o description \o <<"</description>",
       "<created_at>", timestamp, "</created_at>",
       "<layout_type>", "hierarchical", "</layout_type>",
       "<domain>", FallbackXmlDomain(structured_data), "</domain>",
       "<complexity>", "intermediate", "</complexity>",
       "<total_nodes>", "1", "</total_nodes>",
       "<max_depth>", "0", "</max_depth>",
       "<generation_context>", "Generated from: ">> \o original_prompt
       \o <<"</generation_context>", "</metadata>",
       "<nodes>", RootNodeOpen,
       "<content>", "<title>">> \o title \o <<"</title>",
       "<description>">> \o description \o <<"</description>", "</content>",
       "<position x=\"400\" y=\"300\" width=\"200\" height=\"80\"/>",
       "<style color=\"#2c3e50\" shape=\"rectangle\" border=\"solid\"/>",
       "<details>", "<item>", "Core concept requiring systematic approach", "</item>",
       "<item>", "Multiple interconnected components", "</item>", "</details>",
       "<processes>", "<step>", "Initial analysis and planning", "</step>",
       "<step>", "Implementation and execution", "</step>", "</processes>",
       "<considerations>", "<point>", "Consider stakeholder requirements", "</point>",
       "<point>", "Ensure scalable solution", "</point>", "</considerations>",
       "</node>", "</nodes>", "<edges>", "</edges>", "</mindmap>">>

\* startswith / endswith on texts
StartsWith(s, pre) == Len(s) >= Len(pre) /\ SubSeq(s, 1, Len(pre)) = pre
EndsWith(s, suf) == Len(s) >= Len(suf) /\ SubSeq(s, Len(s) - Len(suf) + 1, Len(s)) = suf

\* the markdown code-fence marker (three backquotes), one element of a text
Fence == "FENCE"
\* the language tag that may follow an opening fence, one element of a text
XmlTag == "xml"

\* the fence clean-up of stages 3 and 4
StripFence(text) ==
  LET a == Strip(text)
      b == IF StartsWith(a, <<Fence, XmlTag>>) THEN SubSeq(a, 3, Len(a)) ELSE a
      c == IF EndsWith(b, <<Fence>>) THEN SubSeq(b, 1, Len(b) - 1) ELSE b
  IN Strip(c)

\* whether a document is well-formed XML: one root element, every start tag
\* closed by its own end tag in nesting order, no unescaped markup character
\* in character data, no character data outside the root element.
\* depth[i] is the number of elements open after the i-th element of the text.
WellFormed(doc) ==
  LET n == Len(doc)
      kind == [i \in 1..n |->
                 IF IsStartTag(doc[i]) THEN 1 ELSE IF IsEndTag(doc[i]) THEN -1 ELSE 0]
      depth == [i \in 0..n |->
                  Cardinality({k \in 1..i : kind[k] = 1})
                  - Cardinality({k \in 1..i : kind[k] = -1})]
      opener(j) == CHOOSE i \in 1..(j - 1) :
                     /\ kind[i] = 1 /\ depth[i - 1] = depth[j]
                     /\ \A m \in (i + 1)..(j - 1) : ~(kind[m] = 1 /\ depth[m - 1] = depth[j])
      roots == {i \in 1..n : (kind[i] = 1 /\ depth[i - 1] = 0)
                              \/ (doc[i] \in EmptyTags /\ depth[i] = 0)}
  IN /\ \A i \in 1..n : depth[i] >= 0
     /\ depth[n] = 0
     /\ Cardinality(roots) = 1
     /\ \A j \in 1..n : kind[j] = -1 => EndTagOf(doc[opener(j)]) = doc[j]
     /\ \A i \in 1..n : doc[i] = XmlDecl => i = 1
     /\ \A i \in 1..n : ~IsMarkupChar(doc[i])
     /\ \A i \in 1..n :
          (kind[i] = 0 /\ doc[i] \notin EmptyTags /\ doc[i] # XmlDecl /\ ~IsSpace(doc[i]))
          => depth[i] > 0

\* the number of node blocks of a document
NodeBlocks(doc) == Cardinality({i \in DOMAIN doc : doc[i] = RootNodeOpen})
\* the text of the first element with this start tag
ElementText(doc, start) ==
  LET i == CHOOSE k \in DOMAIN doc : doc[k] = start /\ \A m \in 1..(k - 1) : doc[m] # start
      j == CHOOSE k \in (i + 1)..Len(doc) :
             doc[k] = EndTagOf(start) /\ \A m \in (i + 1)..(k - 1) : doc[m] # EndTagOf(start)
  IN SubSeq(doc, i + 1, j - 1)
HasElement(doc, start) ==
  \E i \in DOMAIN doc : doc[i] = start /\ \E j \in (i + 1)..Len(doc) : doc[j] = EndTagOf(start)

\* -------------------------------------------------------- the instructions

\* the stage-1 instruction: the template with the prompt interpolated
parsing_prompt(p) == [template |-> "parse", prompt |-> p]

\* the stage-2 instruction: the template with json.dumps(parsed_data) and four
\* of its values interpolated
structuring_prompt(pd) ==
  [template |-> "structure",
   data |-> pd,
   title |-> Get(pd, "main_topic", <<"Mindmap">>),
   description |-> Get(pd, "topic_description", <<"Comprehensive mindmap">>),
   domain |-> Get(pd, "domain", "general"),
   complexity |-> Get(pd, "complexity_level", "intermediate")]

\* the stage-3 instruction
xml_prompt(sd, p) == [template |-> "generate_xml", data |-> sd, prompt |-> p]

\* the stage-4 instruction
validation_prompt(xml) == [template |-> "validate_xml", xml |-> xml]

\* ------------------------------------------------- what the service answers

\* "error": the call raises; "unparsable": json.loads raises on the sanitized
\* text; "scalar": the text parses to a JSON value that is no object;
\* "object": the text parses to this object; "text": this text (stages 3, 4)
ErrorResponse == [kind |-> "error"]
UnparsableResponse == [kind |-> "unparsable"]
ScalarResponse == [kind |-> "scalar"]
ObjectResponse(data) == [kind |-> "object", data |-> data]
TextResponse(text) == [kind |-> "text", text |-> text]

RemoveKey(d, key) == [k \in DOMAIN d \ {key} |-> d[k]]

\* a concept as the model writes it, with every key of the instruction's example
ModelConcept(id, level, parent, node_type) ==
  [id |-> id, title |-> <<"Title of ", id>>, description |-> <<"About ", id>>,
   level |-> level, parent |-> parent, category |-> "process", node_type |-> node_type,
   what |-> <<"What">>, why |-> <<"Why">>, how |-> <<"How">>,
   examples |-> << <<"Example">> >>, metrics |-> << <<"Metric">> >>,
   details |-> << <<"Detail">> >>, processes |-> << <<"Process">> >>,
   considerations |-> << <<"Consideration">> >>,
   tools_technologies |-> <<"Tool">>, stakeholders |-> <<"Role">>]

ModelRelationship ==
  [from |-> "root", to |-> "phase1", type |-> "initiates", description |-> <<"Starts">>]

\* a ConceptGraph as the instruction asks for it
GoodGraph ==
  [main_topic |-> <<"Model topic">>, topic_description |-> <<"Model description">>,
   mindmap_type |-> "flowchart", domain |-> "education",
   complexity_level |-> "intermediate", workflow_type |-> "sequential",
   concepts |-> JList(<<ModelConcept("root", 0, "None", "start"),
                        ModelConcept("phase1", 1, "root", "decision")>>),
   relationships |-> JList(<<ModelRelationship>>)]

\* valid for the stage-1 validator, with a second concept that has no id and no title
LaterConceptBare ==
  [GoodGraph EXCEPT !["concepts"] =
     JList(<<ModelConcept("root", 0, "None", "start"), [level |-> 1]>>)]
\* valid for the stage-1 validator, with a relationship that has no from and no to
RelationshipBare ==
  [GoodGraph EXCEPT !["relationships"] = JList(<<[type |-> "initiates"]>>)]
\* valid for the stage-1 validator, with a workflow type the fallback layout skips
ParallelGraph == [GoodGraph EXCEPT !["workflow_type"] = "parallel"]

\* what the service answers at stage 1
Stage1Responses ==
  {ErrorResponse, UnparsableResponse, ScalarResponse,
   ObjectResponse(RemoveKey(GoodGraph, "relationships")),
   ObjectResponse([GoodGraph EXCEPT !["concepts"] = JList(<<>>)]),
   ObjectResponse(GoodGraph), ObjectResponse(LaterConceptBare),
   ObjectResponse(RelationshipBare), ObjectResponse(ParallelGraph)}

\* a node as the model writes it
ModelNode(id, level) ==
  [id |-> id, title |-> <<"Title of ", id>>, description |-> <<"About ", id>>,
   level |-> level, x |-> 400, y |-> 200, width |-> 200, height |-> 80,
   color |-> "#2c3e50", shape |-> "rectangle", category |-> "core",
   details |-> << <<"Detail">> >>, processes |-> << <<"Process">> >>,
   considerations |-> << <<"Consideration">> >>, expanded |-> (level = 0)]

\* a LayoutGraph as the model writes it: these nodes, this metadata
ModelLayout(nodes, total_nodes, max_depth) ==
  [title |-> <<"Layout title">>, description |-> <<"Layout description">>,
   layout_type |-> "hierarchical", domain |-> "education", complexity |-> "intermediate",
   metadata |-> [total_nodes |-> total_nodes, max_depth |-> max_depth,
                 creation_context |-> "Generated from detailed analysis"],
   nodes |-> JList(nodes),
   edges |-> JList(<<>>)]

TwoNodes == <<ModelNode("root", 0), ModelNode("node1", 1)>>

\* what the service answers at stage 2 in a whole-pipeline run: metadata as the
\* instruction's example has it (zeros), and a layout without metadata
Stage2Responses ==
  {ErrorResponse, UnparsableResponse, ScalarResponse,
   ObjectResponse(ModelLayout(<<>>, 0, 0)),
   ObjectResponse(RemoveKey(ModelLayout(TwoNodes, 2, 1), "metadata")),
   ObjectResponse(ModelLayout(TwoNodes, 0, 0)),
   ObjectResponse(ModelLayout(<<ModelNode("root", 0)>>, 5, 3))}

\* a whole document as one chunk of model text
ModelDocument == "<mindmap/>"

\* what the service answers at stages 3 and 4
XmlResponses ==
  {ErrorResponse,
   TextResponse(<<>>),
   TextResponse(<<Fence, XmlTag, Fence>>),
   TextResponse(<<ModelDocument>>),
   TextResponse(<<Fence, XmlTag, " ", ModelDocument, " ", Fence>>),
   TextResponse(<<" ", Fence, ModelDocument, Fence>>),
   TextResponse(<<Fence, XmlTag, Fence, XmlTag, ModelDocument>>)}

\* ------------------------------------------------------------ the prompts

CoffeePrompt == <<"E","x","p","l","a","i","n"," ","h","o","w"," ","a"," ","c","o","f","f","e","e"," ","s","h","o","p"," ","o","r","d","e","r","s"," ","i","n","v","e","n","t","o","r","y">>

Prompts ==
  {<<>>,
   CoffeePrompt,
   <<"x"," ","<"," ","y">>,
   <<"R","&","D"," ","p","l","a","n">>,
   <<"a"," ",">"," ","b">>,
   <<"p","l","a","n"," ","t","r","i","p">>,
   <<"D","e","s","i","g","n"," ","a","p","i">>,
   <<"a","l","p","h","a"," ","b","r","a","v","o"," ","d","e","l","t","a"," ","g","a","m","m","a"," ","k","a","p","p","a"," ","s","i","g","m","a">>}

\* --------------------------------------------- generate_mindmap: the state

VARIABLES
  prompt,           \* the argument of generate_mindmap
  pc,               \* "stage1" .. "stage4", "done" (returned), "raised" (an exception left it)
  attempt,          \* the loop variable of the retry loop of stage 1 or 2
  outstanding,      \* the stages with a model call in flight
  sent,             \* per stage, the instructions sent so far, in order
  parsed_data,      \* <<v>> once stage 1 returned v, <<>> before
  structured_data,  \* <<v>> once stage 2 returned v
  xml_content,      \* <<v>> once stage 3 returned v
  final_xml,        \* <<v>> once stage 4 returned v, the result
  via,              \* per stage: "none", or how it ended: "model", "fallback", "raised"
  service_down,     \* every call answered so far raised
  call_fn,          \* the function applied on its own ("none" in a pipeline run)
  call_arg,         \* its argument
  call_result,      \* <<v>> once it returned v
  ANTHROPIC_API_KEY,   \* whether the environment holds a credential
  server_up,           \* the server's startup event has run
  mindmap_generator,   \* the server's global: "None" or "MindmapGenerator"
  handler_pc,          \* where the entry point or request handler stands
  correction_calls,    \* the repair instructions auto_correct_xml has sent
  corrected_xml,       \* <<>> or <<what auto_correct_xml returned>>
  requests             \* the generate requests the server runs side by side,
                       \* each with the locals of its own generate_mindmap call

pipeline == <<prompt, pc, attempt, outstanding, sent, parsed_data, structured_data,
              xml_content, final_xml, via, service_down>>
direct == <<call_fn, call_arg, call_result>>
server == <<ANTHROPIC_API_KEY, server_up, mindmap_generator, handler_pc,
            correction_calls, corrected_xml, requests>>
vars == <<pipeline, direct, server>>

\* no server and no entry point around the function under study
ServerDown ==
  /\ ANTHROPIC_API_KEY = TRUE
  /\ server_up = FALSE
  /\ mindmap_generator = "None"
  /\ handler_pc = "idle"
  /\ correction_calls = <<>>
  /\ corrected_xml = <<>>
  /\ requests = <<>>

\* a retry loop with one attempt more
max_retries_oneMore == 3 + 1

max_retries == 3

Stages == 1..4

\* a pipeline that hands stage 3 the ConceptGraph instead of the layout
Stage3Input_conceptGraph == parsed_data[1]

\* what generate_mindmap hands to each stage
Stage1Input == prompt
Stage2Input == parsed_data[1]
Stage3Input == structured_data[1]
Stage4Input == xml_content[1]

\* whether an attempt of stage 1 returns the parsed response
Stage1Accepts(r) ==
  /\ r.kind = "object"
  /\ ~ParsedDataCheckRaises(r.data)
  /\ _validate_detailed_parsed_data(r.data)

\* whether an attempt of stage 2 returns the parsed response: the metadata
\* update subscripts structured_data["metadata"], a KeyError when it is absent
Stage2Accepts(r) ==
  /\ r.kind = "object"
  /\ ~StructuredDataCheckRaises(r.data)
  /\ _validate_detailed_structured_data(r.data)
  /\ "metadata" \in DOMAIN r.data
  \* node.get on a null node is an AttributeError
  /\ \A i \in DOMAIN r.data["nodes"].items : IsObject(r.data["nodes"].items[i])

\* a retry loop that catches the parse error only, so that a failed call leaves
\* the stage
Caught_parseErrorOnly(r) == r.kind # "error"

\* whether the retry loop catches the failure of an attempt: except
\* json.JSONDecodeError and except Exception take every failure, the failure
\* of the call included; a rejected answer raises nothing
Caught(r) == TRUE

\* a retry loop that gives up one attempt early
RetryAfter_oneLess(failed_attempt) == failed_attempt + 1 < max_retries - 1

\* whether the retry loop runs another attempt after a failed one
RetryAfter(failed_attempt) == failed_attempt + 1 < max_retries

InitPipeline(P) ==
  /\ prompt \in P
  /\ pc = "stage1"
  /\ attempt = 0
  /\ outstanding = {}
  /\ sent = [s \in Stages |-> <<>>]
  /\ parsed_data = <<>>
  /\ structured_data = <<>>
  /\ xml_content = <<>>
  /\ final_xml = <<>>
  /\ via = [s \in Stages |-> "none"]
  /\ service_down = TRUE
  /\ call_fn = "none" /\ call_arg = <<>> /\ call_result = <<>>
  /\ ServerDown

Init == InitPipeline(Prompts)

\* an attempt of stage 1 sends its instruction
Stage1Call ==
  /\ pc = "stage1" /\ outstanding = {} /\ attempt < max_retries
  /\ sent' = [sent EXCEPT ![1] = Append(@, parsing_prompt(Stage1Input))]
  /\ outstanding' = {1}
  /\ UNCHANGED <<prompt, pc, attempt, parsed_data, structured_data, xml_content,
                 final_xml, via, service_down>>
  /\ UNCHANGED <<direct, server>>

\* the call of stage 1 ends: the response is sanitized, parsed and validated;
\* a failure of any kind ends the attempt, and the last one runs the fallback
Stage1Respond(R) ==
  /\ pc = "stage1" /\ outstanding = {1}
  /\ \E r \in R :
       /\ service_down' = (service_down /\ r.kind = "error")
       /\ IF Stage1Accepts(r)
          THEN /\ parsed_data' = <<r.data>>
               /\ via' = [via EXCEPT ![1] = "model"]
               /\ pc' = "stage2" /\ attempt' = 0
          ELSE IF ~Caught(r)
          THEN /\ via' = [via EXCEPT ![1] = "raised"]
               /\ pc' = "raised"
               /\ UNCHANGED <<parsed_data, attempt>>
          ELSE IF RetryAfter(attempt)
          THEN /\ attempt' = attempt + 1
               /\ UNCHANGED <<parsed_data, via, pc>>
          ELSE /\ parsed_data' = <<_create_intelligent_fallback(Stage1Input)>>
               /\ via' = [via EXCEPT ![1] = "fallback"]
               /\ pc' = "stage2" /\ attempt' = 0
  /\ outstanding' = {}
  /\ UNCHANGED <<prompt, sent, structured_data, xml_content, final_xml>>
  /\ UNCHANGED <<direct, server>>

\* an attempt of stage 2 sends its instruction
Stage2Call ==
  /\ pc = "stage2" /\ outstanding = {} /\ attempt < max_retries
  /\ sent' = [sent EXCEPT ![2] = Append(@, structuring_prompt(Stage2Input))]
  /\ outstanding' = {2}
  /\ UNCHANGED <<prompt, pc, attempt, parsed_data, structured_data, xml_content,
                 final_xml, via, service_down>>
  /\ UNCHANGED <<direct, server>>

\* the call of stage 2 ends; the fallback runs outside the try block, so what
\* it raises leaves the stage and generate_mindmap
Stage2Respond(R) ==
  /\ pc = "stage2" /\ outstanding = {2}
  /\ \E r \in R :
       /\ service_down' = (service_down /\ r.kind = "error")
       /\ IF Stage2Accepts(r)
          THEN /\ structured_data' = <<UpdateMetadata(r.data)>>
               /\ via' = [via EXCEPT ![2] = "model"]
               /\ pc' = "stage3" /\ attempt' = 0
          ELSE IF ~Caught(r)
          THEN /\ via' = [via EXCEPT ![2] = "raised"]
               /\ pc' = "raised"
               /\ UNCHANGED <<structured_data, attempt>>
          ELSE IF RetryAfter(attempt)
          THEN /\ attempt' = attempt + 1
               /\ UNCHANGED <<structured_data, via, pc>>
          ELSE IF FallbackStructureRaises(Stage2Input)
          THEN /\ via' = [via EXCEPT ![2] = "raised"]
               /\ pc' = "raised"
               /\ UNCHANGED <<structured_data, attempt>>
          ELSE /\ structured_data' = <<_create_detailed_fallback_structure(Stage2Input)>>
               /\ via' = [via EXCEPT ![2] = "fallback"]
               /\ pc' = "stage3" /\ attempt' = 0
  /\ outstanding' = {}
  /\ UNCHANGED <<prompt, sent, parsed_data, xml_content, final_xml>>
  /\ UNCHANGED <<direct, server>>

\* stage 3 sends its one instruction
Stage3Call ==
  /\ pc = "stage3" /\ outstanding = {} /\ sent[3] = <<>>
  /\ sent' = [sent EXCEPT ![3] = Append(@, xml_prompt(Stage3Input, prompt))]
  /\ outstanding' = {3}
  /\ UNCHANGED <<prompt, pc, attempt, parsed_data, structured_data, xml_content,
                 final_xml, via, service_down>>
  /\ UNCHANGED <<direct, server>>

\* a stage 3 that also gives up on a delivered text that is no well-formed document
Stage3CallFails_orMalformed(r) == r.kind # "text" \/ ~WellFormed(StripFence(r.text))

\* whether stage 3 leaves its try block by the except branch: only when the
\* call raised, whatever text a call that returned has delivered
Stage3CallFails(r) == r.kind # "text"

\* the call of stage 3 ends: the text without its fence, or the fallback document
Stage3Respond(R) ==
  /\ pc = "stage3" /\ outstanding = {3}
  /\ \E r \in R :
       /\ service_down' = (service_down /\ r.kind = "error")
       /\ IF ~Stage3CallFails(r)
          THEN /\ xml_content' = <<StripFence(r.text)>>
               /\ via' = [via EXCEPT ![3] = "model"]
          ELSE /\ xml_content' = <<_create_detailed_fallback_xml(Stage3Input, prompt)>>
               /\ via' = [via EXCEPT ![3] = "fallback"]
  /\ pc' = "stage4"
  /\ outstanding' = {}
  /\ UNCHANGED <<prompt, attempt, sent, parsed_data, structured_data, final_xml>>
  /\ UNCHANGED <<direct, server>>

\* stage 4 sends its one instruction
Stage4Call ==
  /\ pc = "stage4" /\ outstanding = {} /\ sent[4] = <<>>
  /\ sent' = [sent EXCEPT ![4] = Append(@, validation_prompt(Stage4Input))]
  /\ outstanding' = {4}
  /\ UNCHANGED <<prompt, pc, attempt, parsed_data, structured_data, xml_content,
                 final_xml, via, service_down>>
  /\ UNCHANGED <<direct, server>>

PassThrough_cleaned(xml_content_in) == StripFence(xml_content_in)

\* what stage 4 returns when its call raised: return xml_content
PassThrough(xml_content_in) == xml_content_in

\* the call of stage 4 ends: the text without its fence, or the stage-3 text;
\* generate_mindmap returns it
Stage4Respond(R) ==
  /\ pc = "stage4" /\ outstanding = {4}
  /\ \E r \in R :
       /\ service_down' = (service_down /\ r.kind = "error")
       /\ IF r.kind = "text"
          THEN /\ final_xml' = <<StripFence(r.text)>>
               /\ via' = [via EXCEPT ![4] = "model"]
          ELSE /\ final_xml' = <<PassThrough(Stage4Input)>>
               /\ via' = [via EXCEPT ![4] = "fallback"]
  /\ pc' = "done"
  /\ outstanding' = {}
  /\ UNCHANGED <<prompt, attempt, sent, parsed_data, structured_data, xml_content>>
  /\ UNCHANGED <<direct, server>>

Next ==
  \/ Stage1Call
  \/ Stage1Respond(Stage1Responses)
  \/ Stage2Call
  \/ Stage2Respond(Stage2Responses)
  \/ Stage3Call
  \/ Stage3Respond(XmlResponses)
  \/ Stage4Call
  \/ Stage4Respond(XmlResponses)

Spec == Init /\ [][Next]_vars

\* the pipeline when every call the model service was sent eventually returns
\* or raises, and the coroutine goes on to its next await whenever it can: at
\* most one of the actions of Next is enabled in a state, so weak fairness of
\* Next is weak fairness of each
LiveResponses ==
  [k \in Stages |->
     CASE k = 1 -> {ErrorResponse, ObjectResponse(GoodGraph), ObjectResponse(LaterConceptBare)}
       [] k = 2 -> {ErrorResponse, ObjectResponse(ModelLayout(TwoNodes, 0, 0))}
       [] OTHER -> {ErrorResponse, TextResponse(<<ModelDocument>>)}]

InitLive == InitPipeline({<<>>, <<"p","l","a","n">>})

NextLive ==
  \/ Stage1Call
  \/ Stage1Respond(LiveResponses[1])
  \/ Stage2Call
  \/ Stage2Respond(LiveResponses[2])
  \/ Stage3Call
  \/ Stage3Respond(LiveResponses[3])
  \/ Stage4Call
  \/ Stage4Respond(LiveResponses[4])

SpecLive == InitLive /\ [][NextLive]_vars /\ WF_vars(NextLive)

\* ------------------------------------------------ stage 2 taken on its own

\* the ConceptGraphs stage 1 hands over: its fallback for the prompt, or a
\* graph of the model that its validator accepted
Stage1Outputs(p) ==
  {_create_intelligent_fallback(p), GoodGraph, ParallelGraph, LaterConceptBare,
   RelationshipBare}

\* nodes as the model may write them: any level, no level, or null
NodeVariants ==
  {ModelNode("n", l) : l \in 0..MaxLevel}
    \cup {RemoveKey(ModelNode("n", 0), "level"), JNull}
NodeLists == UNION {[1..n -> NodeVariants] : n \in 1..MaxNodes}
\* the counts the model claims: never the real ones
ClaimedTotals == {0, MaxNodes + 5}
ClaimedDepths == {MaxLevel + 5}

Stage2WideResponses ==
  {ErrorResponse, UnparsableResponse}
    \cup {ObjectResponse(ModelLayout(ns, t, d)) :
            ns \in NodeLists, t \in ClaimedTotals, d \in ClaimedDepths}
    \cup {ObjectResponse([ModelLayout(ns, 0, 0) EXCEPT
                           !["metadata"] = [creation_context |-> "none"]]) :
            ns \in NodeLists}

InitStage2 ==
  /\ prompt \in Prompts
  /\ pc = "stage2"
  /\ attempt = 0
  /\ outstanding = {}
  /\ sent = [s \in Stages |-> <<>>]
  /\ \E g \in Stage1Outputs(prompt) :
       /\ parsed_data = <<g>>
       /\ via = [s \in Stages |->
                 IF s # 1 THEN "none"
                 ELSE IF g = _create_intelligent_fallback(prompt) THEN "fallback"
                 ELSE "model"]
  /\ structured_data = <<>>
  /\ xml_content = <<>>
  /\ final_xml = <<>>
  /\ service_down = FALSE
  /\ call_fn = "none" /\ call_arg = <<>> /\ call_result = <<>>
  /\ ServerDown

NextStage2 ==
  \/ Stage2Call
  \/ Stage2Respond(Stage2WideResponses)

SpecStage2 == InitStage2 /\ [][NextStage2]_vars

\* --------------------------------------------- the validators on their own

\* key sets around a required set: complete, one key short, one key over, none
KeySets(required) ==
  {required, required \cup {"extra"}, {}} \cup {required \ {k} : k \in required}
Elements(required) ==
  {[k \in ks |-> "v"] : ks \in KeySets(required)} \cup {JNull}
ListValues(required) ==
  {JOther} \cup {JList(items) :
                   items \in UNION {[1..n -> Elements(required)] : n \in 0..MaxItems}}
\* parsed JSON objects with the list under listKey
Objects(required, listKey, elementKeys) ==
  {[k \in ks |-> IF k = listKey THEN lv ELSE JOther] :
     ks \in KeySets(required), lv \in ListValues(elementKeys)}

Outcome(raises, value) ==
  IF raises THEN "raises" ELSE IF value THEN "True" ELSE "False"

InitValidate ==
  /\ prompt = <<>>
  /\ pc = "idle"
  /\ attempt = 0
  /\ outstanding = {}
  /\ sent = [s \in Stages |-> <<>>]
  /\ parsed_data = <<>>
  /\ structured_data = <<>>
  /\ xml_content = <<>>
  /\ final_xml = <<>>
  /\ via = [s \in Stages |-> "none"]
  /\ service_down = FALSE
  /\ ServerDown
  /\ call_result = <<>>
  /\ \/ /\ call_fn = "_validate_detailed_parsed_data"
        /\ call_arg \in Objects(required_keys_1, "concepts", required_concept_keys)
     \/ /\ call_fn = "_validate_detailed_structured_data"
        /\ call_arg \in Objects(required_keys_2, "nodes", required_node_keys)

ValidateParsedData ==
  /\ call_fn = "_validate_detailed_parsed_data" /\ call_result = <<>>
  /\ call_result' = <<Outcome(ParsedDataCheckRaises(call_arg),
                               _validate_detailed_parsed_data(call_arg))>>
  /\ UNCHANGED <<pipeline, server, call_fn, call_arg>>

ValidateStructuredData ==
  /\ call_fn = "_validate_detailed_structured_data" /\ call_result = <<>>
  /\ call_result' = <<Outcome(StructuredDataCheckRaises(call_arg),
                               _validate_detailed_structured_data(call_arg))>>
  /\ UNCHANGED <<pipeline, server, call_fn, call_arg>>

NextValidate ==
  \/ ValidateParsedData
  \/ ValidateStructuredData

SpecValidate == InitValidate /\ [][NextValidate]_vars

\* ------------------------------------- the stage-1 fallback on its own

PipelineIdle ==
  /\ prompt = <<>>
  /\ pc = "idle"
  /\ attempt = 0
  /\ outstanding = {}
  /\ sent = [s \in Stages |-> <<>>]
  /\ parsed_data = <<>>
  /\ structured_data = <<>>
  /\ xml_content = <<>>
  /\ final_xml = <<>>
  /\ via = [s \in Stages |-> "none"]
  /\ service_down = FALSE

\* phrases prompts are made of: keywords of the sets in several letter cases,
\* words that hold a keyword inside them, words that hold none
Phrases ==
  {<<"M","a","c","h","i","n","e"," ","L","e","a","r","n","i","n","g">>,
   <<"m","a","c","h","i","n","e"," ","l","e","a","r","n","i","n","g">>,
   <<"a","r","c","h","i","t","e","c","t","u","r","e">>,
   <<"A","r","c","h","i","t","e","c","t","u","r","e">>,
   <<"d","a","t","a">>,
   <<"e","x","p","l","a","i","n">>,
   <<"b","u","s","i","n","e","s","s">>,
   <<"c","o","u","r","s","e">>,
   <<"c","o","f","f","e","e">>,
   <<"s","h","o","p">>,
   <<"s","a","l","e","s">>}
\* prompts of up to MaxWords phrases
PhrasePrompts == UNION {{Join(ws) : ws \in [1..n -> Phrases]} : n \in 0..MaxWords}

\* prompts of blanks only, of fewer than four words, and of six words that are
\* no stop words and longer than three letters
OtherPrompts ==
  {<<" "," ">>,
   <<"p","l","a","n">>,
   <<"p","l","a","n"," ","t","r","i","p"," ","s","o","o","n">>,
   <<"p","l","a","n","t"," ","s","e","v","e","n"," ","g","r","e","e","n"," ","t","r","e","e","s"," ","e","v","e","r","y"," ","s","p","r","i","n","g">>,
   <<"g","r","e","e","n"," ","g","r","e","e","n"," ","g","r","e","e","n"," ","g","r","e","e","n"," ","g","r","e","e","n"," ","g","r","e","e","n">>,
   <<"s","t","u","d","y"," ","s","e","v","e","n"," ","g","r","e","e","n"," ","t","r","e","e","s"," ","e","v","e","r","y"," ","s","p","r","i","n","g">>,
   <<"s","t","u","d","y"," ","p","l","a","n","t"," ","s","e","v","e","n"," ","g","r","e","e","n"," ","t","r","e","e","s"," ","e","v","e","r","y">>,
   <<"s","a","l","e","s"," ","s","e","v","e","n"," ","g","r","e","e","n"," ","t","r","e","e","s"," ","e","v","e","r","y"," ","s","p","r","i","n","g">>,
   <<"d","a","t","a"," ","s","e","v","e","n"," ","g","r","e","e","n"," ","t","r","e","e","s"," ","e","v","e","r","y"," ","s","p","r","i","n","g">>}

InitFallback ==
  /\ PipelineIdle
  /\ ServerDown
  /\ call_fn = "_create_intelligent_fallback"
  /\ call_arg \in PhrasePrompts \cup OtherPrompts
  /\ call_result = <<>>

CreateIntelligentFallback ==
  /\ call_fn = "_create_intelligent_fallback" /\ call_result = <<>>
  /\ call_result' = <<_create_intelligent_fallback(call_arg)>>
  /\ UNCHANGED <<pipeline, server, call_fn, call_arg>>

NextFallback == CreateIntelligentFallback

SpecFallback == InitFallback /\ [][NextFallback]_vars

\* ---------------------------------------------- the sanitizer on its own

\* what texts are made of
Pieces ==
  {<<"{">>, <<"}">>, <<"]">>, <<",">>, <<" ">>, <<"\n">>, <<"a">>,
   <<"j", "s", "o", "n">>, FenceMarker}
RECURSIVE Concat(_)
Concat(ps) == IF ps = <<>> THEN <<>> ELSE Head(ps) \o Concat(Tail(ps))
Texts == UNION {{Concat(ps) : ps \in [1..n -> Pieces]} : n \in 0..MaxPieces}
\* a text inside code-fence markers, without and with the json tag
Fenced(x) == FenceMarker \o x \o FenceMarker
JsonFenced(x) == JsonFenceMarker \o x \o FenceMarker

InitSanitize ==
  /\ PipelineIdle
  /\ ServerDown
  /\ call_fn = "_clean_json_response"
  /\ \E x \in Texts : call_arg \in {x, Fenced(x), JsonFenced(x)}
  /\ call_result = <<>>

CleanJsonResponse ==
  /\ call_fn = "_clean_json_response" /\ call_result = <<>>
  /\ call_result' = <<_clean_json_response(call_arg)>>
  /\ UNCHANGED <<pipeline, server, call_fn, call_arg>>

NextSanitize == CleanJsonResponse

SpecSanitize == InitSanitize /\ [][NextSanitize]_vars

\* ------------------------------------- the entry points and the server

\* MindmapRequest.prompt: Field(..., min_length=10, max_length=2000)
min_length == 10
max_length == 2000

\* prompts handed to the entry points: empty, blank, too short for the server,
\* and two the server takes
EntryPrompts ==
  {<<>>, <<" ", " ">>, <<"x"," ","<"," ","y">>,
   <<"D","e","s","i","g","n"," ","a","p","i">>, <<"x"," ","<"," ","y"," ","p","l","a","n">>}
\* markup submitted for validation
Markups ==
  {<<ModelDocument>>, <<"<title>", "Plan", "</title>">>, <<>>,
   <<"<title>", "Plan">>, <<"<title>", "R", "&", "D", "</title>">>}

\* the calls a behaviour may begin with or the server may receive next
LibraryCalls ==
  {<<"generate_mindmap_from_prompt", [prompt |-> p, api_key |-> k]>> :
     p \in EntryPrompts, k \in {"", "key"}}
    \cup {<<"main", [prompt |-> p]>> : p \in EntryPrompts}
ServerRequests ==
  {<<"/api/generate", [prompt |-> p]>> : p \in EntryPrompts}
    \cup {<<"/api/validate", [xml_content |-> m]>> : m \in Markups}
ServerOps == {"/api/generate", "/api/validate"}

\* how a call ends for its caller
Raises(error) == [kind |-> "raised", error |-> error]
Returns(value) == [kind |-> "returned", value |-> value]
Exits(code) == [kind |-> "exit", code |-> code]
HttpError(status) == [kind |-> "http", status |-> status]
HttpOk(body) == [kind |-> "http", status |-> 200, body |-> body]
MindmapResponse(xml, metadata) ==
  [xml_content |-> xml, metadata |-> metadata, success |-> TRUE]
\* validated_xml is <<>> for None, else <<text>>
EditResponse(success, message, validated_xml) ==
  [success |-> success, message |-> message, validated_xml |-> validated_xml]

\* what the service answers in a run begun at an entry point
EntryStage1Responses == {ErrorResponse, ObjectResponse(LaterConceptBare)}
EntryStage2Responses == {ErrorResponse, ObjectResponse(ModelLayout(TwoNodes, 0, 0))}
EntryXmlResponses == {ErrorResponse, TextResponse(<<>>), TextResponse(<<ModelDocument>>)}
\* what the service answers to a repair instruction
CorrectionResponses ==
  {ErrorResponse, TextResponse(<<>>), TextResponse(<<"<title>", "Plan">>),
   TextResponse(<<Fence, XmlTag, "<title>", "Plan", "</title>", Fence>>)}

InitEntry ==
  /\ PipelineIdle
  /\ ANTHROPIC_API_KEY \in BOOLEAN
  /\ server_up = FALSE
  /\ mindmap_generator = "None"
  /\ handler_pc = "idle"
  /\ correction_calls = <<>>
  /\ corrected_xml = <<>>
  /\ requests = <<>>
  /\ call_result = <<>>
  /\ \E c \in LibraryCalls \cup ServerRequests : call_fn = c[1] /\ call_arg = c[2]

\* generate_mindmap(prompt) begins on a fresh generator
StartPipeline(p) ==
  /\ prompt' = p
  /\ pc' = "stage1"
  /\ service_down' = TRUE
  /\ UNCHANGED <<attempt, outstanding, sent, parsed_data, structured_data,
                 xml_content, final_xml, via>>

initialize_generator_withoutKey ==
  /\ call_fn \in ServerOps /\ ~server_up
  /\ server_up' = TRUE
  /\ mindmap_generator' = "MindmapGenerator"
  /\ UNCHANGED <<pipeline, direct, requests, ANTHROPIC_API_KEY, handler_pc, correction_calls,
                 corrected_xml>>

\* the startup event: initialize_generator
initialize_generator ==
  /\ call_fn \in ServerOps /\ ~server_up
  /\ server_up' = TRUE
  /\ mindmap_generator' = IF ANTHROPIC_API_KEY THEN "MindmapGenerator" ELSE "None"
  /\ UNCHANGED <<pipeline, direct, requests, ANTHROPIC_API_KEY, handler_pc, correction_calls,
                 corrected_xml>>

\* generate_mindmap_from_prompt up to its call of generate_mindmap
GenerateFromPrompt ==
  /\ call_fn = "generate_mindmap_from_prompt" /\ handler_pc = "idle"
  /\ LET api_key == IF call_arg.api_key # "" THEN call_arg.api_key
                     ELSE IF ANTHROPIC_API_KEY THEN "key" ELSE ""
     IN IF api_key = ""
        THEN /\ call_result' = <<Raises("ValueError")>>
             /\ handler_pc' = "finished"
             /\ UNCHANGED pipeline
        ELSE /\ StartPipeline(call_arg.prompt)
             /\ handler_pc' = "in_pipeline"
             /\ UNCHANGED call_result
  /\ UNCHANGED <<call_fn, call_arg, requests, ANTHROPIC_API_KEY, server_up, mindmap_generator,
                 correction_calls, corrected_xml>>

\* generate_mindmap_from_prompt hands on what generate_mindmap returned or raised
GenerateFromPromptEnds ==
  /\ call_fn = "generate_mindmap_from_prompt" /\ handler_pc = "in_pipeline"
  /\ pc \in {"done", "raised"}
  /\ call_result' = <<IF pc = "done" THEN Returns(final_xml[1]) ELSE Raises("KeyError")>>
  /\ handler_pc' = "finished"
  /\ UNCHANGED <<pipeline, call_fn, call_arg, requests, ANTHROPIC_API_KEY, server_up,
                 mindmap_generator, correction_calls, corrected_xml>>

\* main up to its call of generate_mindmap_from_prompt(prompt, api_key)
Main ==
  /\ call_fn = "main" /\ handler_pc = "idle"
  /\ IF ~ANTHROPIC_API_KEY \/ Strip(call_arg.prompt) = <<>>
     THEN /\ call_result' = <<Exits(1)>>
          /\ handler_pc' = "finished"
          /\ UNCHANGED pipeline
     ELSE /\ StartPipeline(call_arg.prompt)
          /\ handler_pc' = "in_pipeline"
          /\ UNCHANGED call_result
  /\ UNCHANGED <<call_fn, call_arg, requests, ANTHROPIC_API_KEY, server_up, mindmap_generator,
                 correction_calls, corrected_xml>>

\* main saves the document, or reports the error and exits
MainEnds ==
  /\ call_fn = "main" /\ handler_pc = "in_pipeline"
  /\ pc \in {"done", "raised"}
  /\ call_result' = <<IF pc = "done" THEN Exits(0) ELSE Exits(1)>>
  /\ handler_pc' = "finished"
  /\ UNCHANGED <<pipeline, call_fn, call_arg, requests, ANTHROPIC_API_KEY, server_up,
                 mindmap_generator, correction_calls, corrected_xml>>

\* POST /api/generate up to its call of generate_mindmap: the request model
\* is validated, then the generator is looked at
ApiGenerate ==
  /\ call_fn = "/api/generate" /\ server_up /\ handler_pc = "idle"
  /\ IF Len(call_arg.prompt) < min_length \/ Len(call_arg.prompt) > max_length
     THEN /\ call_result' = <<HttpError(422)>>
          /\ handler_pc' = "finished"
          /\ UNCHANGED pipeline
     ELSE IF mindmap_generator = "None"
     THEN /\ call_result' = <<HttpError(500)>>
          /\ handler_pc' = "finished"
          /\ UNCHANGED pipeline
     ELSE /\ StartPipeline(call_arg.prompt)
          /\ handler_pc' = "in_pipeline"
          /\ UNCHANGED call_result
  /\ UNCHANGED <<call_fn, call_arg, requests, ANTHROPIC_API_KEY, server_up, mindmap_generator,
                 correction_calls, corrected_xml>>

Parses_anything(xml) == TRUE

\* ET.fromstring succeeds
Parses(xml) == WellFormed(xml)

\* the text of a child of the metadata element, else the default
MetadataField(xml, tag, default) ==
  IF HasElement(xml, "<metadata>") /\ HasElement(ElementText(xml, "<metadata>"), tag)
  THEN ElementText(ElementText(xml, "<metadata>"), tag)
  ELSE <<default>>

\* the metadata record of a generate response; lengths are counted in the
\* elements of the modelled texts
ExtractMetadata(request_prompt, xml) ==
  IF Parses(xml)
  THEN [prompt_length |-> Len(request_prompt), xml_length |-> Len(xml),
        timestamp |-> "TIMESTAMP",
        domain |-> MetadataField(xml, "<domain>", "general"),
        complexity |-> MetadataField(xml, "<complexity>", "intermediate"),
        total_nodes |-> MetadataField(xml, "<total_nodes>", "0"),
        max_depth |-> MetadataField(xml, "<max_depth>", "0")]
  ELSE [prompt_length |-> Len(request_prompt), xml_length |-> Len(xml),
        timestamp |-> "TIMESTAMP"]

\* POST /api/generate answers
ApiGenerateEnds ==
  /\ call_fn = "/api/generate" /\ handler_pc = "in_pipeline"
  /\ pc \in {"done", "raised"}
  /\ call_result' =
       <<IF pc = "done"
         THEN HttpOk(MindmapResponse(final_xml[1],
                                     ExtractMetadata(call_arg.prompt, final_xml[1])))
         ELSE HttpError(500)>>
  /\ handler_pc' = "finished"
  /\ UNCHANGED <<pipeline, call_fn, call_arg, requests, ANTHROPIC_API_KEY, server_up,
                 mindmap_generator, correction_calls, corrected_xml>>

\* the repair instruction: the template with the markup interpolated
correction_prompt(xml) == [template |-> "correct", xml_content |-> xml]

\* POST /api/validate up to the repair call, if it makes one
ApiValidate ==
  /\ call_fn = "/api/validate" /\ server_up /\ handler_pc = "idle"
  /\ IF Parses(call_arg.xml_content)
     THEN /\ call_result' =
               <<HttpOk(EditResponse(TRUE, "XML is valid", <<call_arg.xml_content>>))>>
          /\ handler_pc' = "finished"
          /\ UNCHANGED correction_calls
     ELSE IF mindmap_generator = "None"
     THEN /\ call_result' =
               <<HttpOk(EditResponse(FALSE, "XML validation failed", <<>>))>>
          /\ handler_pc' = "finished"
          /\ UNCHANGED correction_calls
     ELSE /\ correction_calls' =
               Append(correction_calls, correction_prompt(call_arg.xml_content))
          /\ handler_pc' = "awaiting_correction"
          /\ UNCHANGED call_result
  /\ UNCHANGED <<pipeline, call_fn, call_arg, requests, ANTHROPIC_API_KEY, server_up,
                 mindmap_generator, corrected_xml>>

\* the repair call ends; auto_correct_xml returns and POST /api/validate answers
AutoCorrectRespond(R) ==
  /\ call_fn = "/api/validate" /\ handler_pc = "awaiting_correction"
  /\ \E r \in R :
       LET corrected == IF r.kind = "text" THEN <<StripFence(r.text)>> ELSE <<>>
       IN /\ corrected_xml' = corrected
          /\ call_result' =
               <<IF corrected # <<>> /\ corrected[1] # <<>> /\ Parses(corrected[1])
                 THEN HttpOk(EditResponse(TRUE,
                        "XML was invalid but has been auto-corrected", corrected))
                 ELSE HttpOk(EditResponse(FALSE, "XML validation failed", <<>>))>>
  /\ handler_pc' = "finished"
  /\ UNCHANGED <<pipeline, call_fn, call_arg, requests, ANTHROPIC_API_KEY, server_up,
                 mindmap_generator, correction_calls>>

\* the server takes its next request
NextRequest ==
  /\ call_fn \in ServerOps /\ handler_pc = "finished"
  /\ \E c \in ServerRequests : call_fn' = c[1] /\ call_arg' = c[2]
  /\ call_result' = <<>>
  /\ handler_pc' = "idle"
  /\ correction_calls' = <<>>
  /\ corrected_xml' = <<>>
  /\ prompt' = <<>>
  /\ pc' = "idle"
  /\ attempt' = 0
  /\ outstanding' = {}
  /\ sent' = [s \in Stages |-> <<>>]
  /\ parsed_data' = <<>>
  /\ structured_data' = <<>>
  /\ xml_content' = <<>>
  /\ final_xml' = <<>>
  /\ via' = [s \in Stages |-> "none"]
  /\ service_down' = FALSE
  /\ UNCHANGED <<requests, ANTHROPIC_API_KEY, server_up, mindmap_generator>>

NextEntry ==
  \/ initialize_generator
  \/ GenerateFromPrompt
  \/ GenerateFromPromptEnds
  \/ Main
  \/ MainEnds
  \/ ApiGenerate
  \/ ApiGenerateEnds
  \/ ApiValidate
  \/ AutoCorrectRespond(CorrectionResponses)
  \/ NextRequest
  \/ Stage1Call
  \/ Stage1Respond(EntryStage1Responses)
  \/ Stage2Call
  \/ Stage2Respond(EntryStage2Responses)
  \/ Stage3Call
  \/ Stage3Respond(EntryXmlResponses)
  \/ Stage4Call
  \/ Stage4Respond(EntryXmlResponses)

SpecEntry == InitEntry /\ [][NextEntry]_vars

\* ------------------------------------- two generate requests side by side
\* the requests the server is handling at once
RequestIds == {1, 2}

\* the prompts of the requests (both within min_length .. max_length)
ConcurrentPrompts ==
  {<<"p","l","a","n"," ","a"," ","t","r","i","p">>,
   <<"D","e","s","i","g","n"," ","a","n"," ","a","p","i">>}

\* what the service answers, stage by stage, while two requests are running
ConcurrentResponses ==
  [k \in Stages |->
     CASE k = 1 -> {ErrorResponse, ObjectResponse(GoodGraph)}
       [] k = 2 -> {ErrorResponse, ObjectResponse(ModelLayout(TwoNodes, 0, 0))}
       [] OTHER -> {ErrorResponse, TextResponse(<<Fence, XmlTag, ModelDocument, Fence>>)}]

\* what the service answers, stage by stage, to a request running alone
\* a layout the stage-2 validator accepts and that has no metadata key
LayoutWithoutMetadata == RemoveKey(ModelLayout(TwoNodes, 2, 1), "metadata")

AloneResponses ==
  [k \in Stages |->
     CASE k = 1 -> {ErrorResponse, UnparsableResponse,
                    ObjectResponse(RemoveKey(GoodGraph, "relationships")),
                    ObjectResponse(GoodGraph)}
       [] k = 2 -> {ErrorResponse, UnparsableResponse,
                    ObjectResponse(ModelLayout(<<>>, 0, 0)),
                    ObjectResponse(LayoutWithoutMetadata),
                    ObjectResponse(ModelLayout(TwoNodes, 0, 0))}
       [] OTHER -> {ErrorResponse,
                    TextResponse(<<Fence, XmlTag, " ", ModelDocument, " ", Fence>>),
                    TextResponse(<<Fence, " ", ModelDocument, " ", Fence>>),
                    TextResponse(<<" ", ModelDocument, " ">>)}]

\* the locals of one api_generate_mindmap call and of its generate_mindmap:
\* received[k] are the responses to the calls this request made in stage k
NewRequest(p) ==
  [prompt |-> p, pc |-> "stage1", attempt |-> 0, outstanding |-> FALSE,
   received |-> [k \in Stages |-> <<>>],
   parsed_data |-> <<>>, structured_data |-> <<>>, xml_content |-> <<>>,
   final_xml |-> <<>>]

\* a stage result held on the generator object instead of in the locals of the
\* call: every request reads what the first request to set it has stored
Local_onGenerator(r, name) ==
  LET holders == {q \in DOMAIN requests : requests[q][name] # <<>>}
      first == CHOOSE q \in holders : \A o \in holders : q <= o
  IN requests[first][name][1]

\* a local of request r's generate_mindmap: parsed_data, structured_data,
\* xml_content
Local(r, name) == requests[r][name][1]

\* the server is up with a credential; the requests have passed the generator
\* check and entered generate_mindmap
InitConcurrent ==
  /\ PipelineIdle
  /\ call_fn = "none" /\ call_arg = <<>> /\ call_result = <<>>
  /\ ANTHROPIC_API_KEY = TRUE
  /\ server_up = TRUE
  /\ mindmap_generator = "MindmapGenerator"
  /\ handler_pc = "idle"
  /\ correction_calls = <<>>
  /\ corrected_xml = <<>>
  /\ \E p1 \in ConcurrentPrompts, p2 \in ConcurrentPrompts :
       requests = [r \in RequestIds |-> NewRequest(IF r = 1 THEN p1 ELSE p2)]

\* request r awaits client.messages.create: the event loop may run the other
\* request meanwhile
RequestCall(r) ==
  /\ requests[r].pc \in {"stage1", "stage2", "stage3", "stage4"}
  /\ ~requests[r].outstanding
  /\ (requests[r].pc \in {"stage1", "stage2"} => requests[r].attempt < max_retries)
  /\ requests' = [requests EXCEPT ![r].outstanding = TRUE]
  /\ UNCHANGED <<pipeline, direct, ANTHROPIC_API_KEY, server_up, mindmap_generator,
                 handler_pc, correction_calls, corrected_xml>>

\* request r after the response resp to its outstanding call, stage by stage
AfterResponse(r, resp) ==
  LET q == requests[r] IN
  CASE q.pc = "stage1" ->
         IF Stage1Accepts(resp)
         THEN [q EXCEPT !.parsed_data = <<resp.data>>, !.pc = "stage2", !.attempt = 0]
         ELSE IF ~Caught(resp)
         THEN [q EXCEPT !.pc = "raised"]
         ELSE IF RetryAfter(q.attempt)
         THEN [q EXCEPT !.attempt = @ + 1]
         ELSE [q EXCEPT !.parsed_data = <<_create_intelligent_fallback(q.prompt)>>,
                        !.pc = "stage2", !.attempt = 0]
    [] q.pc = "stage2" ->
         IF Stage2Accepts(resp)
         THEN [q EXCEPT !.structured_data = <<UpdateMetadata(resp.data)>>,
                        !.pc = "stage3", !.attempt = 0]
         ELSE IF ~Caught(resp)
         THEN [q EXCEPT !.pc = "raised"]
         ELSE IF RetryAfter(q.attempt)
         THEN [q EXCEPT !.attempt = @ + 1]
         ELSE IF FallbackStructureRaises(Local(r, "parsed_data"))
         THEN [q EXCEPT !.pc = "raised"]
         ELSE [q EXCEPT !.structured_data =
                          <<_create_detailed_fallback_structure(Local(r, "parsed_data"))>>,
                        !.pc = "stage3", !.attempt = 0]
    [] q.pc = "stage3" ->
         [q EXCEPT !.xml_content =
                     <<IF ~Stage3CallFails(resp) THEN StripFence(resp.text)
                       ELSE _create_detailed_fallback_xml(Local(r, "structured_data"),
                                                          q.prompt)>>,
                   !.pc = "stage4"]
    [] q.pc = "stage4" ->
         [q EXCEPT !.final_xml =
                     <<IF resp.kind = "text" THEN StripFence(resp.text)
                       ELSE PassThrough(Local(r, "xml_content"))>>,
                   !.pc = "done"]

\* the stage a request is in
StageOf(q) == CHOOSE k \in Stages : q.pc = <<"stage1", "stage2", "stage3", "stage4">>[k]

\* the outstanding call of request r ends with one of the responses R gives for
\* its stage; the generator handle is only read
RequestRespond(r, R) ==
  /\ requests[r].outstanding
  /\ \E resp \in R[StageOf(requests[r])] :
       requests' = [requests EXCEPT ![r] =
                      [AfterResponse(r, resp) EXCEPT
                         !.outstanding = FALSE,
                         !.received[StageOf(requests[r])] = Append(@, resp)]]
  /\ UNCHANGED <<pipeline, direct, ANTHROPIC_API_KEY, server_up, mindmap_generator,
                 handler_pc, correction_calls, corrected_xml>>

NextConcurrent ==
  \E r \in RequestIds : RequestCall(r) \/ RequestRespond(r, ConcurrentResponses)

SpecConcurrent == InitConcurrent /\ [][NextConcurrent]_vars

\* ------------------------------------------- one generate request on its own
InitAlone ==
  /\ PipelineIdle
  /\ call_fn = "none" /\ call_arg = <<>> /\ call_result = <<>>
  /\ ANTHROPIC_API_KEY = TRUE
  /\ server_up = TRUE
  /\ mindmap_generator = "MindmapGenerator"
  /\ handler_pc = "idle"
  /\ correction_calls = <<>>
  /\ corrected_xml = <<>>
  /\ \E p \in ConcurrentPrompts : requests = [r \in {1} |-> NewRequest(p)]

NextAlone == RequestCall(1) \/ RequestRespond(1, AloneResponses)

SpecAlone == InitAlone /\ [][NextAlone]_vars

\* ------------------------------------------------------------ properties

Returned(k) == via[k] \in {"model", "fallback"}
Result == final_xml[1]
TotalCalls == Len(sent[1]) + Len(sent[2]) + Len(sent[3]) + Len(sent[4])

\* C1: generate_mindmap never raises to its caller, whatever the model service
\* answers at each call: no run ends with an exception leaving the pipeline.
C1_NeverRaises == pc # "raised"

\* C2: for a non-empty prompt the string generate_mindmap returns is not
\* empty, whatever the model service answers at each call.
C2_ResultNotEmpty == (pc = "done" /\ prompt # <<>>) => Result # <<>>

\* C3: when every call to the model service fails, the returned text is a
\* well-formed XML document with a metadata block, a single root node and an
\* empty edge list, for every prompt.
C3_ServiceDownWellFormed ==
  (pc = "done" /\ service_down) =>
    /\ WellFormed(Result)
    /\ HasElement(Result, "<metadata>")
    /\ NodeBlocks(Result) = 1
    /\ HasElement(Result, "<edges>") /\ ElementText(Result, "<edges>") = <<>>

C5_CallCounts ==
  pc = "done" =>
    /\ Len(sent[1]) \in 1..3
    /\ Len(sent[2]) \in 1..3
    /\ Len(sent[3]) = 1
    /\ Len(sent[4]) = 1
    /\ TotalCalls \in 4..8
C5_Witness == pc = "done" /\ TotalCalls = 8

\* C6: the stages run in strict sequence: a call of stage k+1 is issued only
\* after stage k returned, a call is in flight only for the stage that is
\* running, at most one call is in flight, and every instruction of stage k+1
\* carries exactly the value stage k returned.
C6_StrictSequence ==
  /\ Cardinality(outstanding) <= 1
  /\ \A k \in 2..4 : sent[k] # <<>> => Returned(k - 1)
  /\ \A k \in Stages : k \in outstanding =>
        /\ ~Returned(k)
        /\ pc = <<"stage1", "stage2", "stage3", "stage4">>[k]
  /\ \A i \in DOMAIN sent[1] : sent[1][i].prompt = prompt
  /\ \A i \in DOMAIN sent[2] : sent[2][i].data = parsed_data[1]
  /\ \A i \in DOMAIN sent[3] : sent[3][i].data = structured_data[1]
  /\ \A i \in DOMAIN sent[4] : sent[4][i].xml = xml_content[1]
C6_Witness ==
  /\ pc = "done" /\ via[1] = "fallback" /\ via[2] = "model"
  /\ via[3] = "model" /\ via[4] = "model"

C8_MetadataRecomputed ==
  structured_data # <<>> =>
    LET layout == structured_data[1]
        nodes == layout["nodes"].items
        levels == {nodes[i]["level"] :
                     i \in {j \in DOMAIN nodes : "level" \in DOMAIN nodes[j]}}
    IN /\ {"total_nodes", "max_depth"} \subseteq DOMAIN layout["metadata"]
       /\ layout["metadata"]["total_nodes"] = Cardinality(DOMAIN nodes)
       /\ \/ levels = {} /\ layout["metadata"]["max_depth"] = 0
          \/ /\ layout["metadata"]["max_depth"] \in levels
             /\ \A l \in levels : l <= layout["metadata"]["max_depth"]

\* the model's layout of two nodes, the deeper one first, came back recounted
C8_Witness ==
  /\ via[2] = "model" /\ structured_data # <<>>
  /\ structured_data[1]["metadata"]["total_nodes"] = 2
  /\ structured_data[1]["metadata"]["max_depth"] = 2
  /\ "level" \in DOMAIN structured_data[1]["nodes"].items[1]
  /\ structured_data[1]["nodes"].items[1]["level"] = 2

\* C9: the stage-1 validator accepts an object exactly when it has the five
\* top-level keys, its concepts is a non-empty list and its first concept has
\* the nine concept keys; extra keys and later concepts do not matter. (An
\* object it does not accept is rejected: it answers False, or the check
\* raises on a null first concept, which the stage's loop treats alike.)
C9_Stage1Validator ==
  (call_fn = "_validate_detailed_parsed_data" /\ call_result # <<>>) =>
    LET data == call_arg
        meets ==
          /\ {"main_topic", "topic_description", "mindmap_type", "concepts",
               "relationships"} \subseteq DOMAIN data
          /\ data["concepts"].type = "list"
          /\ data["concepts"].items # <<>>
          /\ {"id", "title", "description", "level", "what", "why", "how",
               "examples", "metrics"} \subseteq DOMAIN data["concepts"].items[1]
    IN /\ call_result[1] = "True" <=> meets
       /\ call_result[1] = "raises" =>
            /\ data["concepts"].items # <<>>
            /\ data["concepts"].items[1] = JNull

\* accepted with an extra top-level key and an empty second concept
C9_Witness ==
  /\ call_fn = "_validate_detailed_parsed_data" /\ call_result = <<"True">>
  /\ "extra" \in DOMAIN call_arg
  /\ Len(call_arg["concepts"].items) = 2
  /\ DOMAIN call_arg["concepts"].items[2] = {}

\* C10: the stage-2 validator accepts an object exactly when it has the five
\* top-level keys, its nodes is a non-empty list and its first node has the
\* eight node keys; a metadata key is not required. (An object it does not
\* accept is rejected: it answers False, or the check raises on a null first
\* node, which the stage's loop treats alike.)
C10_Stage2Validator ==
  (call_fn = "_validate_detailed_structured_data" /\ call_result # <<>>) =>
    LET data == call_arg
        meets ==
          /\ {"title", "description", "layout_type", "nodes", "edges"}
               \subseteq DOMAIN data
          /\ data["nodes"].type = "list"
          /\ data["nodes"].items # <<>>
          /\ {"id", "title", "description", "x", "y", "details", "processes",
               "considerations"} \subseteq DOMAIN data["nodes"].items[1]
    IN /\ call_result[1] = "True" <=> meets
       /\ call_result[1] = "raises" =>
            /\ data["nodes"].items # <<>>
            /\ data["nodes"].items[1] = JNull

\* accepted without a metadata key
C10_Witness ==
  /\ call_fn = "_validate_detailed_structured_data" /\ call_result = <<"True">>
  /\ "metadata" \notin DOMAIN call_arg
  /\ DOMAIN call_arg = {"title", "description", "layout_type", "nodes", "edges"}

\* the fallback graph of a prompt has been built
Classified == call_fn = "_create_intelligent_fallback" /\ call_result # <<>>
\* w occurs in s in any letter case
ContainsAnyCase(s, w) ==
  \E i \in 1..(Len(s) - Len(w) + 1) :
    \A k \in 1..Len(w) : s[i + k - 1] \in {w[k], UpperChar(w[k])}
AllKeywords == ml_keywords \cup arch_keywords \cup business_keywords \cup education_keywords
\* the words of a prompt, lower-cased
WordsOf(s) == Range(Split(Lower(s)))

\* C11: the fallback classifier assigns software_architecture to every prompt
\* that contains the word "architecture".
C11_ArchitectureWord ==
  (Classified /\ <<"a","r","c","h","i","t","e","c","t","u","r","e">> \in WordsOf(call_arg)) =>
    call_result[1]["domain"] = "software_architecture"

\* C12: the fallback classifier assigns machine_learning to every prompt that
\* contains "machine learning" in any letter case, whatever keywords of the
\* other sets it also contains; the sets are tested in the order
\* machine_learning, software_architecture, business_strategy, education and
\* the first set with a match wins.
C12_MachineLearningFirst ==
  Classified =>
    LET domain == call_result[1]["domain"]
        match(S) == \E w \in S : ContainsAnyCase(call_arg, w)
    IN /\ ContainsAnyCase(call_arg, <<"m","a","c","h","i","n","e"," ","l","e","a","r","n","i","n","g">>) => domain = "machine_learning"
       /\ match(ml_keywords) => domain = "machine_learning"
       /\ (~match(ml_keywords) /\ match(arch_keywords)) => domain = "software_architecture"
       /\ (~match(ml_keywords) /\ ~match(arch_keywords) /\ match(business_keywords))
            => domain = "business_strategy"
       /\ (~match(ml_keywords) /\ ~match(arch_keywords) /\ ~match(business_keywords)
             /\ match(education_keywords)) => domain = "education"

\* "Machine Learning" next to "Architecture": classified machine_learning
C12_Witness ==
  /\ Classified
  /\ ContainsAnyCase(call_arg, <<"m","a","c","h","i","n","e"," ","l","e","a","r","n","i","n","g">>) /\ ~Contains(call_arg, <<"m","a","c","h","i","n","e"," ","l","e","a","r","n","i","n","g">>)
  /\ ContainsAnyCase(call_arg, <<"a","r","c","h","i","t","e","c","t","u","r","e">>)
  /\ call_result[1]["domain"] = "machine_learning"

\* C13: the fallback classifier assigns general exactly when no keyword of the
\* four sets occurs as a substring of the lower-cased prompt, so a prompt none
\* of whose words is a keyword is classified general.
C13_GeneralWhenNoKeyword ==
  Classified =>
    /\ call_result[1]["domain"] = "general"
         <=> ~\E w \in AllKeywords : Contains(Lower(call_arg), w)
    /\ (WordsOf(call_arg) \cap AllKeywords = {} /\ ~ContainsAnyCase(call_arg, <<"m","a","c","h","i","n","e"," ","l","e","a","r","n","i","n","g">>))
         => call_result[1]["domain"] = "general"

\* the sanitizer has answered
Cleaned == call_fn = "_clean_json_response" /\ call_result # <<>>

\* C14: for every text x, the sanitizer applied to x inside code-fence
\* markers, with or without the json tag, returns what it returns for x alone.
C14_FenceTransparent ==
  Cleaned =>
    \A x \in Texts :
      call_arg \in {Fenced(x), JsonFenced(x)} =>
        call_result[1] = _clean_json_response(x)

\* the comma at index i of s is followed only by whitespace and a closing
\* brace or bracket
TrailingCommaAt(s, i) ==
  /\ s[i] = ","
  /\ \E j \in (i + 1)..Len(s) :
       /\ s[j] \in {"}", "]"}
       /\ \A k \in (i + 1)..(j - 1) : s[k] \in {" ", "\n", "\t"}
\* the payload of a text: from its first opening brace to its last closing one
Payload(s) ==
  LET opens == {i \in DOMAIN s : s[i] = "{"}
      closes == {i \in DOMAIN s : s[i] = "}"}
      first == CHOOSE i \in opens : \A j \in opens : i <= j
      last == CHOOSE i \in closes : \A j \in closes : j <= i
  IN IF opens = {} \/ closes = {} \/ last < first THEN <<>>
     ELSE SubSeq(s, first, last)
\* s without its trailing commas, line breaks as spaces
WithoutTrailingCommas(s) ==
  LET keep == {i \in DOMAIN s : ~TrailingCommaAt(s, i)}
      nth(n) == CHOOSE i \in keep : Cardinality({j \in keep : j < i}) = n - 1
  IN [n \in 1..Cardinality(keep) |->
        IF s[nth(n)] \in {"\n", "\t"} THEN " " ELSE s[nth(n)]]

\* C15: the sanitizer's output holds no trailing comma (no comma followed only
\* by whitespace and then a closing brace or bracket), and no other character
\* of the payload between the first opening brace and the last closing brace
\* is removed.
C15_NoTrailingComma ==
  Cleaned =>
    /\ \A i \in DOMAIN call_result[1] : ~TrailingCommaAt(call_result[1], i)
    /\ Payload(call_arg) # <<>> =>
         call_result[1] = WithoutTrailingCommas(Payload(call_arg))

\* C16: when the stage-4 call fails, generate_mindmap returns the text stage 3
\* produced, unchanged, character for character.
C16_Stage4PassThrough ==
  (pc = "done" /\ via[4] = "fallback") => Result = xml_content[1]

\* stage 3's text still opens with a fence marker; stage 4 failed and the
\* caller got that text as it was
C16_Witness ==
  /\ pc = "done" /\ via[3] = "model" /\ via[4] = "fallback"
  /\ xml_content = << <<Fence, XmlTag, ModelDocument>> >>
  /\ Result = <<Fence, XmlTag, ModelDocument>>

\* no stage has run and no model call has been issued
PipelineUntouched ==
  /\ pc = "idle" /\ TotalCalls = 0 /\ outstanding = {}
  /\ \A k \in Stages : via[k] = "none"
\* the call or request has been answered
Answered == handler_pc = "finished" /\ call_result # <<>>
\* the call or request ended in an error for its caller
Failed ==
  \/ call_result[1].kind = "raised"
  \/ call_result[1].kind = "exit" /\ call_result[1].code # 0
  \/ call_result[1].kind = "http" /\ call_result[1].status # 200

\* C17: with no credential configured a generate request fails before any
\* stage runs and before any model call: generate_mindmap_from_prompt raises
\* ValueError, and the server answers every /api/generate request with an
\* error while its generator stays uninitialized.
C17_NoCredential ==
  /\ (call_fn = "generate_mindmap_from_prompt" /\ call_arg.api_key = ""
        /\ ~ANTHROPIC_API_KEY) =>
       /\ PipelineUntouched
       /\ Answered => call_result[1] = Raises("ValueError")
  /\ (call_fn = "/api/generate" /\ ~ANTHROPIC_API_KEY) =>
       /\ PipelineUntouched
       /\ mindmap_generator = "None"
       /\ Answered => Failed

\* a well-sized prompt, no credential: the server answered 500 and nothing ran
C17_Witness ==
  /\ call_fn = "/api/generate" /\ ~ANTHROPIC_API_KEY /\ server_up
  /\ Len(call_arg.prompt) >= min_length
  /\ call_result = <<HttpError(500)>>
  /\ PipelineUntouched

\* C18: the empty prompt is rejected before the pipeline starts, at each entry
\* point (generate_mindmap_from_prompt, main, /api/generate): no stage runs
\* and no model call is issued for it.
C18_EmptyPromptRejected ==
  (call_fn \in {"generate_mindmap_from_prompt", "main", "/api/generate"}
    /\ call_arg.prompt = <<>>) =>
      /\ PipelineUntouched
      /\ Answered => Failed

\* C19: the validate operation never raises and issues at most one model call
\* per request, none when the submitted markup parses; it answers valid=true
\* only with a markup that parses (the input when it parses, else the repaired
\* text), and valid=false with no markup when the input does not parse and the
\* repair is unavailable, fails or does not parse.
C19_ValidateOperation ==
  call_fn = "/api/validate" =>
    LET input == call_arg.xml_content
        repaired == corrected_xml # <<>> /\ WellFormed(corrected_xml[1])
    IN /\ TotalCalls = 0
       /\ Len(correction_calls) <= 1
       /\ WellFormed(input) => correction_calls = <<>>
       /\ mindmap_generator = "None" => correction_calls = <<>>
       /\ Answered =>
            LET answer == call_result[1] IN
            /\ answer.kind = "http" /\ answer.status = 200
            /\ answer.body.success <=> (WellFormed(input) \/ repaired)
            /\ answer.body.success =>
                 /\ answer.body.validated_xml # <<>>
                 /\ WellFormed(answer.body.validated_xml[1])
                 /\ answer.body.validated_xml =
                      (IF WellFormed(input) THEN <<input>> ELSE corrected_xml)
            /\ ~answer.body.success => answer.body.validated_xml = <<>>

\* markup that did not parse came back repaired, after one repair call
C19_Witness ==
  /\ call_fn = "/api/validate" /\ Answered
  /\ ~WellFormed(call_arg.xml_content)
  /\ Len(correction_calls) = 1
  /\ call_result[1].body.success
  /\ call_result[1].body.validated_xml = << <<"<title>", "Plan", "</title>">> >>

\* C20: every successful response of /api/generate carries a metadata record
\* with the seven fields domain, complexity, total_nodes, max_depth,
\* prompt_length, xml_length and timestamp, whatever markup the pipeline
\* returned.
C20_SevenMetadataFields ==
  (call_fn = "/api/generate" /\ Answered /\ call_result[1].status = 200) =>
    {"domain", "complexity", "total_nodes", "max_depth", "prompt_length",
     "xml_length", "timestamp"} \subseteq DOMAIN call_result[1].body.metadata

\* what generate_mindmap returns for prompt p when run alone and answered, stage
\* by stage, by the responses rs
AloneParsed(p, rs) ==
  LET last == rs[1][Len(rs[1])]
  IN IF Stage1Accepts(last) THEN last.data ELSE _create_intelligent_fallback(p)
AloneStructured(p, rs) ==
  LET last == rs[2][Len(rs[2])]
  IN IF Stage2Accepts(last) THEN UpdateMetadata(last.data)
     ELSE _create_detailed_fallback_structure(AloneParsed(p, rs))
AloneXml(p, rs) ==
  LET last == rs[3][1]
  IN IF last.kind = "text" THEN StripFence(last.text)
     ELSE _create_detailed_fallback_xml(AloneStructured(p, rs), p)
AloneResult(p, rs) ==
  LET last == rs[4][1]
  IN IF last.kind = "text" THEN StripFence(last.text) ELSE AloneXml(p, rs)

LastReceived(n, k) == n.received[k][Len(n.received[k])]
\* the response parses and passes the validator of its stage
Valid1(resp) ==
  /\ resp.kind = "object"
  /\ ~ParsedDataCheckRaises(resp.data)
  /\ _validate_detailed_parsed_data(resp.data)
Valid2(resp) ==
  /\ resp.kind = "object"
  /\ ~StructuredDataCheckRaises(resp.data)
  /\ _validate_detailed_structured_data(resp.data)

\* C22: in stages 1 and 2, a response that parses and passes the stage's
\* validator ends the stage at that attempt: the stage returns the parsed
\* response (in stage 2 with its metadata recomputed) and the pipeline moves on
\* to the next stage, also for a stage-2 response that has no metadata key.
C22_ValidEndsStage ==
  [][\A r \in DOMAIN requests :
       LET q == requests[r]
           n == requests'[r]
       IN /\ (q.pc = "stage1" /\ n.received[1] # q.received[1]
                /\ Valid1(LastReceived(n, 1)))
             => (n.pc = "stage2" /\ n.parsed_data = <<LastReceived(n, 1).data>>)
          /\ (q.pc = "stage2" /\ n.received[2] # q.received[2]
                /\ Valid2(LastReceived(n, 2)))
             => /\ n.pc = "stage3"
                /\ n.structured_data # <<>>
                /\ n.structured_data[1]["nodes"] = LastReceived(n, 2).data["nodes"]
                /\ "metadata" \in DOMAIN LastReceived(n, 2).data
                     => n.structured_data = <<UpdateMetadata(LastReceived(n, 2).data)>>
    ]_vars

\* C23: the layout the stage-2 fallback builds from whatever ConceptGraph
\* stage 1 returned passes the stage-2 validator: the five required top-level
\* keys, a non-empty nodes list and a first node with the eight required keys.
C23_FallbackLayoutValid ==
  (pc = "stage3" /\ via[2] = "fallback") =>
     /\ ~StructuredDataCheckRaises(structured_data[1])
     /\ _validate_detailed_structured_data(structured_data[1])

\* C24: the ConceptGraph the stage-1 fallback builds passes the stage-1
\* validator for every prompt, the empty prompt, a prompt of blanks and a prompt
\* of fewer than four words included.
C24_FallbackGraphValid ==
  Classified =>
    /\ ~ParsedDataCheckRaises(call_result[1])
    /\ _validate_detailed_parsed_data(call_result[1])

\* the fallback graph of a prompt of blanks only has been built and validated
C24_Witness ==
  /\ Classified
  /\ call_arg # <<>> /\ Strip(call_arg) = <<>>
  /\ _validate_detailed_parsed_data(call_result[1])

\* the concepts and the relationships of the fallback graph that was built
FallbackConcepts == call_result[1]["concepts"].items
FallbackRelationships == call_result[1]["relationships"].items
FallbackIds == {FallbackConcepts[i]["id"] : i \in DOMAIN FallbackConcepts}
\* the stage names the fallback used for the prompt
StageNames == ProcessFlow(ClassifyDomain(call_arg), KeyWords(call_arg))

\* C25: the stage-1 fallback graph is well-formed for every prompt: concept ids
\* are pairwise distinct; exactly one concept, the root, has parent null and
\* level 0; every other concept has a parent that is an id of the graph and the
\* level of its parent plus 1; there is one child concept per stage name; and
\* the relationships form the chain root -> process_1 -> ... -> process_n with
\* endpoints that are ids of the graph.
C25_FallbackGraphWellFormed ==
  Classified =>
    LET cs == FallbackConcepts
        rs == FallbackRelationships
        ById(id) == cs[CHOOSE i \in DOMAIN cs : cs[i]["id"] = id]
    IN /\ \A i, j \in DOMAIN cs : cs[i]["id"] = cs[j]["id"] => i = j
       /\ Cardinality({i \in DOMAIN cs : cs[i]["parent"] = "None"}) = 1
       /\ cs[1]["id"] = "root" /\ cs[1]["parent"] = "None" /\ cs[1]["level"] = 0
       /\ \A i \in DOMAIN cs \ {1} :
            /\ cs[i]["parent"] \in FallbackIds
            /\ cs[i]["level"] = ById(cs[i]["parent"])["level"] + 1
       /\ Len(cs) = 1 + Len(StageNames)
       /\ \A i \in DOMAIN StageNames : cs[i + 1]["title"] = StageNames[i]
       /\ Len(rs) = Len(StageNames)
       /\ \A i \in DOMAIN rs :
            /\ rs[i]["from"] = cs[i]["id"]
            /\ rs[i]["to"] = cs[i + 1]["id"]
            /\ {rs[i]["from"], rs[i]["to"]} \subseteq FallbackIds

\* the graph of a prompt whose six key words, all the same word, became the
\* stage names
C25_Witness ==
  /\ Classified
  /\ call_result[1]["domain"] = "general"
  /\ Len(FallbackConcepts) = 7
  /\ FallbackConcepts[2]["title"] = FallbackConcepts[7]["title"]
  /\ FallbackConcepts[2]["id"] # FallbackConcepts[7]["id"]
  /\ FallbackRelationships[6]["from"] = "process_5"

\* one prompt of each named domain: a keyword of the domain on its own
NamedDomainPrompts ==
  {<<"d","a","t","a">>, <<"a","r","c","h","i","t","e","c","t","u","r","e">>,
   <<"s","a","l","e","s">>, <<"c","o","u","r","s","e">>}

\* C26: the stage names of the stage-1 fallback are fixed per domain for the
\* four named domains machine_learning, software_architecture,
\* business_strategy and education: a prompt classified into one of them gets
\* the stage names every other prompt of that domain gets.
C26_StageNamesFixedPerDomain ==
  Classified =>
    \A q \in NamedDomainPrompts :
      ClassifyDomain(q) = call_result[1]["domain"] =>
        [i \in DOMAIN StageNames |-> FallbackConcepts[i + 1]["title"]]
          = ProcessFlow(ClassifyDomain(q), KeyWords(q))

\* the text is an opening fence (with the xml tag or bare), a body and a
\* closing fence
IsFenced(text) == Len(text) >= 2 /\ text[1] = Fence /\ text[Len(text)] = Fence
FencedBody(text) ==
  IF Len(text) >= 3 /\ text[2] = XmlTag THEN SubSeq(text, 3, Len(text) - 1)
  ELSE SubSeq(text, 2, Len(text) - 1)
\* what stage k of request record q returned for the text of its response
StageText(q, k) == IF k = 3 THEN q.xml_content[1] ELSE q.final_xml[1]

\* C27: stages 3 and 4 strip the code-fence wrapping of the model response: for
\* a response made of an opening fence (with the xml tag or bare), a body and a
\* closing fence the stage returns the trimmed body, with no fence marker at
\* its start or end; a response without fences is returned trimmed and
\* otherwise unchanged.
C27_FenceStripped ==
  \A r \in DOMAIN requests : \A k \in {3, 4} :
    LET q == requests[r] IN
    (q.received[k] # <<>> /\ q.received[k][1].kind = "text") =>
      LET text == q.received[k][1].text
          out == StageText(q, k)
      IN /\ IsFenced(text) =>
              /\ out = Strip(FencedBody(text))
              /\ out # <<>> => (out[1] # Fence /\ out[Len(out)] # Fence)
         /\ Fence \notin Range(text) => out = Strip(text)

\* C28: when the stage-3 call fails, the document stage 3 returns is the
\* fallback document of the layout's title and description alone: one node,
\* with id root, no edge, total_nodes 1, max_depth 0, domain general and
\* layout_type hierarchical, whatever nodes, edges, domain and metadata the
\* layout has; a response that was delivered, malformed or not, is passed on
\* without its fence and the fallback is not used.
C28_Stage3Fallback ==
  \A r \in DOMAIN requests :
    LET q == requests[r] IN
    q.xml_content # <<>> =>
      LET resp == q.received[3][1]
          out == q.xml_content[1]
          layout == q.structured_data[1]
      IN /\ resp.kind = "error" =>
              /\ out = _create_detailed_fallback_xml(
                         [title |-> layout["title"], description |-> layout["description"]],
                         q.prompt)
              /\ NodeBlocks(out) = 1
              /\ RootNodeOpen \in Range(out)
              /\ ElementText(out, "<edges>") = <<>>
              /\ ElementText(out, "<total_nodes>") = <<"1">>
              /\ ElementText(out, "<max_depth>") = <<"0">>
              /\ ElementText(out, "<domain>") = <<"general">>
              /\ ElementText(out, "<layout_type>") = <<"hierarchical">>
         /\ resp.kind = "text" => out = StripFence(resp.text)

\* the stage-3 call failed on a layout of seven nodes and six edges with
\* domain software_architecture
C28_Witness ==
  /\ requests[1].xml_content # <<>>
  /\ requests[1].received[3] = <<ErrorResponse>>
  /\ Len(requests[1].structured_data[1]["nodes"].items) = 7
  /\ Len(requests[1].structured_data[1]["edges"].items) = 6
  /\ requests[1].structured_data[1]["domain"] = "software_architecture"
  /\ requests[1].structured_data[1]["metadata"]["total_nodes"] = 7

\* the result stage k of request record q returned, <<>> while it is running
StageResult(q, k) == IF k = 1 THEN q.parsed_data ELSE q.structured_data
\* attempt i of stage k of request record q failed
AttemptFailed(q, k, i) ==
  IF k = 1 THEN ~Stage1Accepts(q.received[k][i]) ELSE ~Stage2Accepts(q.received[k][i])

\* C29: in stages 1 and 2 a call that failed counts as one of the 3 attempts
\* like any other failed attempt: nothing is raised to the caller, the stage
\* goes on to its next attempt while one remains and has returned nothing yet,
\* and the fallback result is returned only after three failed attempts,
\* whatever the kinds of the three failures.  The stage's result is looked at
\* when the stage has returned it and the next stage has had no answer yet.
C29_FailedCallIsAnAttempt ==
  \A r \in DOMAIN requests : \A k \in {1, 2} :
    LET q == requests[r]
        returned == StageResult(q, k) # <<>> /\ q.received[k + 1] = <<>>
        n == Len(q.received[k])
        fallback == IF k = 1 THEN _create_intelligent_fallback(q.prompt)
                    ELSE _create_detailed_fallback_structure(q.parsed_data[1])
    IN /\ n <= max_retries
       /\ \A i \in 1..(n - 1) : AttemptFailed(q, k, i)
       /\ (n >= 1 /\ q.received[k][n].kind = "error") =>
            /\ q.pc # "raised"
            /\ n < max_retries =>
                 /\ q.pc = <<"stage1", "stage2">>[k]
                 /\ q.attempt = n
                 /\ StageResult(q, k) = <<>>
            /\ n = max_retries =>
                 /\ q.pc = <<"stage2", "stage3">>[k] \/ q.received[k + 1] # <<>>
                 /\ returned => StageResult(q, k) = <<fallback>>
       /\ (n >= 1 /\ n < max_retries /\ returned) =>
            /\ ~AttemptFailed(q, k, n)
            /\ StageResult(q, k) = <<IF k = 1 THEN q.received[k][n].data
                                      ELSE UpdateMetadata(q.received[k][n].data)>>

\* stage 1 went to its fallback after a failed call, an unparsable answer and
\* a failed call; stage 2 after an unparsable answer, a failed call and a third
\* failure
C29_Witness ==
  /\ requests[1].received[1] = <<ErrorResponse, UnparsableResponse, ErrorResponse>>
  /\ requests[1].parsed_data = <<_create_intelligent_fallback(requests[1].prompt)>>
  /\ Len(requests[1].received[2]) = max_retries
  /\ requests[1].received[2][1] = UnparsableResponse
  /\ requests[1].received[2][2] = ErrorResponse
  /\ requests[1].structured_data
       = <<_create_detailed_fallback_structure(requests[1].parsed_data[1])>>

\* C30: when every model call eventually returns or fails, the request
\* eventually finishes with all four stages complete and a result handed to
\* the caller; and while a call has not been answered the request stays at that
\* stage and no later stage has been started.
C30_EventuallyFinishes ==
  /\ <>(pc = "done" /\ final_xml # <<>> /\ \A k \in Stages : sent[k] # <<>>)
  /\ [](\A k \in outstanding :
          /\ pc = <<"stage1", "stage2", "stage3", "stage4">>[k]
          /\ \A j \in Stages : j > k => sent[j] = <<>>)

====
